---- MODULE Spec2Model ----
(***************************************************************************)
(* A model of codec-compare-gen's task framework: the generic worker pool  *)
(* (src/worker.h), the task worker and the Compare() driver                *)
(* (src/framework.cc), and the task planner, log line format and           *)
(* aggregator (src/task.cc, src/serialization.cc).                         *)
(*                                                                         *)
(* Representation choices:                                                 *)
(*  - a std::string is a sequence of character codes (ASCII);              *)
(*  - enums are their underlying integers (src/base.h);                    *)
(*  - a double or float is an integer count of fixed-point units, chosen   *)
(*    so that the sums and comparisons the code performs are exact.        *)
(***************************************************************************)
EXTENDS Integers, Sequences, FiniteSets, TLC

(***************************************************************************)
(* Bounds of the model.                                                    *)
(***************************************************************************)
\* Largest number of workers of a pool used on its own (WorkerPool(n)).
MaxWorkers == 3
\* Largest settings.num_extra_threads of a Compare() call.
MaxExtraThreads == 1
\* Largest settings.num_repetitions of a small Compare() call.
MaxRepetitions == 1
\* Number of tasks beyond kMaxNumFailures + 1 in the failure-threshold runs.
ExtraThresholdTasks == 1
MaxThresholdWorkers == 2
MaxCalls == 2
MaxPlannedTasks == 2
MaxCodecVersion == 1
\* SpecReconcile: the most entries of a loaded log.
MaxCompleted == 3
\* SpecAggregate: the most results handed to the aggregator.
MaxResults == 3
\* SpecLogLine: the longest image path and encoded path of a logged task.
MaxPathLen == 2

(***************************************************************************)
(* Program constants (src/base.h).                                         *)
(***************************************************************************)
kOk == "kOk"
kUnknownError == "kUnknownError"

kWebp == 0
kWebp2 == 1

kJpegmoz == 8
\* enum class Codec
Codecs == kWebp..kJpegmoz

kDefault == 0
k444 == 1
k420 == 2

kQualityLossless == -1
kNumDistortionMetrics == 7
kNoDistortion == 99
kMaxNumFailures == 32

\* enum class EncodeMode
kEncode == "kEncode"
kEncodeAndSaveToDisk == "kEncodeAndSaveToDisk"
kLoadFromDisk == "kLoadFromDisk"

(***************************************************************************)
(* Strings: sequences of character codes.                                  *)
(***************************************************************************)
CharQuote == 34
CharComma == 44
CharSpace == 32
CharBackslash == 92
CharSlash == 47
CharDot == 46

EmptyString == << >>

\* std::string operator<: lexicographic on character codes.
RECURSIVE StringLess(_, _)
StringLess(a, b) ==
  IF b = << >> THEN FALSE
  ELSE IF a = << >> THEN TRUE
  ELSE IF Head(a) < Head(b) THEN TRUE
  ELSE IF Head(a) > Head(b) THEN FALSE
  ELSE StringLess(Tail(a), Tail(b))

\* Generic helpers on sequences.
Range(s) == { s[i] : i \in 1..Len(s) }

RECURSIVE SumSeq(_)
SumSeq(s) == IF s = << >> THEN 0 ELSE Head(s) + SumSeq(Tail(s))

RECURSIVE Count(_, _)
Count(x, s) ==
  IF s = << >> THEN 0
  ELSE (IF Head(s) = x THEN 1 ELSE 0) + Count(x, Tail(s))

\* The multiset of the elements of a sequence, as a function element -> count.
BagOf(s) == [x \in Range(s) |-> Count(x, s)]

Reverse(s) == [i \in 1..Len(s) |-> s[Len(s) + 1 - i]]

RemoveAt(s, i) == [j \in 1..(Len(s) - 1) |-> IF j < i THEN s[j] ELSE s[j + 1]]

\* s without the first occurrence of x.
RemoveOne(x, s) ==
  RemoveAt(s, CHOOSE i \in 1..Len(s) : s[i] = x /\ \A j \in 1..(i - 1) : s[j] # x)

\* All orderings of the elements of s (as a multiset).
RECURSIVE Orderings(_)
Orderings(s) ==
  IF s = << >> THEN { << >> }
  ELSE UNION { { << x >> \o p : p \in Orderings(RemoveOne(x, s)) } :
               x \in Range(s) }

\* The sequences std::sort(begin, end, Less) may leave (the sort is not
\* stable): the elements ascending by Less, those of one equivalence class
\* of the comparator (the same number of smaller elements) in any order.
SortedOrderings(s, Less(_, _)) ==
  LET Rank(x) == Cardinality({ i \in 1..Len(s) : Less(s[i], x) })
      RECURSIVE Build(_)
      Build(ranks) ==
        IF ranks = {} THEN { << >> }
        ELSE LET r == CHOOSE r \in ranks : \A q \in ranks : r <= q
                 HasRank(x) == Rank(x) = r
             IN { first \o rest : first \in Orderings(SelectSeq(s, HasRank)),
                                  rest \in Build(ranks \ { r }) }
  IN Build({ Rank(s[i]) : i \in 1..Len(s) })

(***************************************************************************)
(* Task model (src/framework.h, src/task.h, src/task.cc).                  *)
(***************************************************************************)
\* struct CodecSettings
CodecSettings(codec, chroma_subsampling, effort, quality) ==
  [codec |-> codec, chroma_subsampling |-> chroma_subsampling,
   effort |-> effort, quality |-> quality]

\* struct TaskInput
TaskInput(codec_settings, image_path, encoded_path) ==
  [codec_settings |-> codec_settings, image_path |-> image_path,
   encoded_path |-> encoded_path]

\* bool operator==(const CodecSettings&, const CodecSettings&)
CodecSettingsEq(a, b) ==
  /\ a.codec = b.codec
  /\ a.chroma_subsampling = b.chroma_subsampling
  /\ a.effort = b.effort
  /\ a.quality = b.quality

\* An equality of tasks that, like TaskInputComp, ignores the encoded path.
TaskInputEqNoPath(a, b) ==
  /\ CodecSettingsEq(a.codec_settings, b.codec_settings)
  /\ a.image_path = b.image_path

\* bool operator==(const TaskInput&, const TaskInput&)
TaskInputEq(a, b) ==
  /\ CodecSettingsEq(a.codec_settings, b.codec_settings)
  /\ a.image_path = b.image_path
  /\ a.encoded_path = b.encoded_path

\* Characters above the ASCII range stand for a run of ordinary characters
\* (no quote, comma, backslash, space, dot or slash): the text a number or a
\* codec-dependent file extension is printed as.
ChunkBase == 1000

\* The extension GetEncodedFilePath() builds from the codec settings:
\* "." [subsampling] "e" effort ("lossless" | "q" quality) "." extension.
\* The text is an injective function of the four settings (the subsampling is
\* left out only for lossless 4:4:4), kept here as one chunk.
EncodedExtension(cs) ==
  << CharDot,
     ChunkBase + ((cs.codec * 3 + cs.chroma_subsampling) * 11 + cs.effort) * 102
               + (cs.quality + 1) >>

\* Position of the last occurrence of character c in s, 0 if none.
LastIndexOf(c, s) ==
  LET hits == { i \in 1..Len(s) : s[i] = c }
  IN IF hits = {} THEN 0 ELSE CHOOSE i \in hits : \A j \in hits : j <= i

\* std::filesystem::path::filename()
Filename(path) == SubSeq(path, LastIndexOf(CharSlash, path) + 1, Len(path))

\* The file name without its extension (what replace_extension() keeps).
Stem(name) ==
  LET dot == LastIndexOf(CharDot, name)
  IN IF dot <= 1 THEN name ELSE SubSeq(name, 1, dot - 1)

\* std::string GetEncodedFilePath(folder_path, image_path, codec_settings)
GetEncodedFilePath(folder_path, image_path, codec_settings) ==
  IF folder_path = EmptyString THEN EmptyString
  ELSE folder_path \o << CharSlash >> \o Stem(Filename(image_path))
         \o EncodedExtension(codec_settings)

\* settings.num_repetitions is a uint32_t (src/framework.h).  Its largest
\* value, 2^32 - 1, is beyond the integers of the model checker and is
\* written as the signed integer of the same 32 bits.
Uint32Max == -1

\* 1 + settings.num_repetitions, in uint32_t arithmetic: the sum wraps to 0.
OnePlus(num_repetitions) ==
  IF num_repetitions = Uint32Max THEN 0 ELSE 1 + num_repetitions

\* The inner loop of PlanTasks(): 1 + num_repetitions copies of one task.
Repeat(x, n) == [i \in 1..n |-> x]

\* The tasks of one codec setting, for the images in the order given.
RECURSIVE PlanImages(_, _, _)
PlanImages(codec_settings, image_paths, settings) ==
  IF image_paths = << >> THEN << >>
  ELSE Repeat(TaskInput(codec_settings, Head(image_paths),
                        GetEncodedFilePath(settings.encoded_folder_path,
                                           Head(image_paths), codec_settings)),
              OnePlus(settings.num_repetitions))
       \o PlanImages(codec_settings, Tail(image_paths), settings)

\* The vector PlanTasks() returns on success.
RECURSIVE PlanTasksValue(_, _)
PlanTasksValue(image_paths, settings) ==
  IF settings.codec_settings = << >> THEN << >>
  ELSE PlanImages(Head(settings.codec_settings), image_paths, settings)
       \o PlanTasksValue(image_paths,
                         [settings EXCEPT !.codec_settings = Tail(@)])

\* StatusOr<std::vector<TaskInput>> PlanTasks(image_paths, settings)
PlanTasks(image_paths, settings) ==
  IF image_paths = << >> \/ settings.codec_settings = << >>
  THEN [status |-> kUnknownError, value |-> << >>]
  ELSE [status |-> kOk, value |-> PlanTasksValue(image_paths, settings)]

(***************************************************************************)
(* Serialization (src/serialization.cc).                                   *)
(***************************************************************************)
\* std::isspace() on the characters of the model.
IsSpace(c) == c = CharSpace

\* std::string Trim(const std::string& str)
RECURSIVE Trim(_)
Trim(str) ==
  IF str = << >> THEN << >>
  ELSE IF IsSpace(Head(str)) THEN Trim(Tail(str))
  ELSE IF IsSpace(str[Len(str)]) THEN Trim(SubSeq(str, 1, Len(str) - 1))
  ELSE str

\* The loop of Split() over the characters lo..hi of str, entered with the
\* flags given: the flags it leaves, and those it had before each character.
\* (The range is halved rather than walked, which keeps the evaluation
\* shallow; the loop body is the case lo = hi.)
RECURSIVE SplitLoop(_, _, _, _, _)
SplitLoop(str, delimiter, lo, hi, flags) ==
  IF lo > hi THEN [after |-> flags, before |-> << >>]
  ELSE IF lo = hi
  THEN [after |->
          IF str[lo] = delimiter /\ ~flags.in_literal_string THEN flags
          ELSE [is_escaped |-> ~flags.is_escaped /\ str[lo] = CharBackslash,
                in_literal_string |->
                  IF str[lo] = CharQuote /\ ~flags.is_escaped
                  THEN ~flags.in_literal_string
                  ELSE flags.in_literal_string],
        before |-> << flags >>]
  ELSE LET mid == (lo + hi) \div 2
           left == SplitLoop(str, delimiter, lo, mid, flags)
           right == SplitLoop(str, delimiter, mid + 1, hi, left.after)
       IN [before |-> left.before \o right.before, after |-> right.after]

\* std::vector<std::string> Split(const std::string& str, char delimiter):
\* a new token begins after each delimiter met outside a literal string.
Split(str, delimiter) ==
  LET before == SplitLoop(str, delimiter, 1, Len(str),
                          [is_escaped |-> FALSE,
                           in_literal_string |-> FALSE]).before
      cuts == { i \in 1..Len(str) :
                str[i] = delimiter /\ ~before[i].in_literal_string }
      Cut(k) == IF k = 0 THEN 0
                ELSE IF k > Cardinality(cuts) THEN Len(str) + 1
                ELSE CHOOSE p \in cuts :
                       Cardinality({ q \in cuts : q < p }) = k - 1
  IN [t \in 1..(Cardinality(cuts) + 1) |->
        Trim(SubSeq(str, Cut(t - 1) + 1, Cut(t) - 1))]

\* std::string Escape(const std::string& str)
RECURSIVE EscapeChars(_)
EscapeChars(str) ==
  IF str = << >> THEN << >>
  ELSE (IF Head(str) = CharQuote THEN << CharBackslash >> ELSE << >>)
       \o << Head(str) >> \o EscapeChars(Tail(str))

Escape(str) == << CharQuote >> \o EscapeChars(str) \o << CharQuote >>

\* The loop of Unescape(), from position i (1-based) of escaped_str.
RECURSIVE UnescapeLoop(_, _)
UnescapeLoop(escaped_str, i) ==
  IF i + 1 > Len(escaped_str) THEN << >>
  ELSE IF escaped_str[i] = CharBackslash /\ escaped_str[i + 1] = CharQuote
  THEN << CharQuote >> \o UnescapeLoop(escaped_str, i + 2)
  ELSE << escaped_str[i] >> \o UnescapeLoop(escaped_str, i + 1)

\* StatusOr<std::string> Unescape(const std::string& escaped_str, bool quiet)
Unescape(escaped_str) ==
  IF /\ Len(escaped_str) >= 2
     /\ Head(escaped_str) = CharQuote
     /\ escaped_str[Len(escaped_str)] = CharQuote
     /\ escaped_str[Len(escaped_str) - 1] # CharBackslash
  THEN [status |-> kOk, value |-> UnescapeLoop(escaped_str, 2)]
  ELSE [status |-> kUnknownError, value |-> << >>]

(***************************************************************************)
(* Numbers in a log line.  A number is printed as one chunk of ordinary    *)
(* characters; a floating-point value is printed by operator<< with the    *)
(* stream's default precision of six significant digits.                   *)
(***************************************************************************)
NumBase == 100000000
kStreamPrecision == 6

\* Fixed-point units of a float distortion: 1 unit = 1 / DistortionScale.
DistortionScale == 100000
NoDistortion == kNoDistortion * DistortionScale
\* 0.001f in distortion units (SameDistortion()).
SameDistortionTolerance == DistortionScale \div 1000

RECURSIVE NumDigits(_)
NumDigits(v) == IF v < 10 THEN 1 ELSE 1 + NumDigits(v \div 10)

RECURSIVE Pow10(_)
Pow10(n) == IF n = 0 THEN 1 ELSE 10 * Pow10(n - 1)

\* The value read back from the text operator<<(double) prints for v >= 0:
\* v rounded to kStreamPrecision significant digits.
RoundToPrecision(v) ==
  IF NumDigits(v) <= kStreamPrecision THEN v
  ELSE LET p == Pow10(NumDigits(v) - kStreamPrecision)
       IN ((v + p \div 2) \div p) * p

\* operator<<(std::ostream&, double) / operator<<(std::ostream&, float)
PrintFloat(v) == << NumBase + RoundToPrecision(v) >>

\* operator<<(std::ostream&, int) and the unsigned variants: exact.
PrintInt(v) == << NumBase + v >>

\* Whether a token is the text of a number (what std::stoul & co. accept).
IsNumber(token) == Len(token) = 1 /\ token[1] >= NumBase - 1

\* std::stoul(), std::stoi(), std::stod(), std::stof() on a number token.
ParseNumber(token) == token[1] - NumBase

\* std::string CodecName(Codec codec) (src/codec.cc): one chunk per codec.
CodecName(codec) == << ChunkBase + codec >>

\* StatusOr<Codec> CodecFromName(const std::string& name, bool quiet)
CodecFromName(name) ==
  IF Len(name) = 1 /\ name[1] \in { ChunkBase + codec : codec \in Codecs }
  THEN [status |-> kOk, value |-> name[1] - ChunkBase]
  ELSE [status |-> kUnknownError, value |-> 0]

\* std::string SubsamplingToString(Subsampling): one chunk per value.
SubsamplingToString(subsampling) == << ChunkBase + 20 + subsampling >>

\* StatusOr<Subsampling> SubsamplingFromString(const std::string&, bool quiet)
SubsamplingFromString(str) ==
  IF Len(str) = 1 /\ str[1] \in { ChunkBase + 20 + kDefault,
                                  ChunkBase + 20 + k444, ChunkBase + 20 + k420 }
  THEN [status |-> kOk, value |-> str[1] - (ChunkBase + 20)]
  ELSE [status |-> kUnknownError, value |-> 0]

\* The ", " written between two fields.
Separator == << CharComma, CharSpace >>

RECURSIVE Join(_)
Join(tokens) ==
  IF tokens = << >> THEN << >>
  ELSE IF Len(tokens) = 1 THEN Head(tokens)
  ELSE Head(tokens) \o Separator \o Join(Tail(tokens))

\* struct TaskOutput
TaskOutput(task_input, image_width, image_height, num_frames, encoded_size, encoding_duration, decoding_duration, decoding_color_conversion_duration, distortions) ==
  [task_input |-> task_input, image_width |-> image_width,
   image_height |-> image_height, num_frames |-> num_frames,
   encoded_size |-> encoded_size, encoding_duration |-> encoding_duration,
   decoding_duration |-> decoding_duration,
   decoding_color_conversion_duration |-> decoding_color_conversion_duration,
   distortions |-> distortions]

\* std::string TaskOutput::Serialize() const
Serialize(task) ==
  Join(<< Escape(CodecName(task.task_input.codec_settings.codec)),
          SubsamplingToString(task.task_input.codec_settings.chroma_subsampling),
          PrintInt(task.task_input.codec_settings.effort),
          PrintInt(task.task_input.codec_settings.quality),
          Escape(task.task_input.image_path),
          PrintInt(task.image_width),
          PrintInt(task.image_height),
          PrintInt(task.num_frames),
          Escape(task.task_input.encoded_path),
          PrintInt(task.encoded_size),
          PrintFloat(task.encoding_duration),
          PrintFloat(task.decoding_duration),
          PrintFloat(task.decoding_color_conversion_duration) >>
       \o (IF task.task_input.codec_settings.quality # kQualityLossless
           THEN [m \in 1..kNumDistortionMetrics |->
                   PrintFloat(task.distortions[m])]
           ELSE << >>))

\* What an uncaught std::invalid_argument of std::stoul & co. ends in.
kException == "exception"

kNumNonDistortionTokens == 13

\* The mark of a float the code has left uninitialised: no path of the
\* model reads it before it is assigned.
Indeterminate == -1

kLibjxlButteraugli == 3
kLibjxlSsimulacra2 == 5

Failed(status) == [status |-> status, value |-> << >>]

\* StatusOr<TaskOutput> UnserializeNoDistortion(serialized_task, tokens, quiet)
\* (the static function of the anonymous namespace).
UnserializeTokensNoDistortion(tokens) ==
  IF Len(tokens) < kNumNonDistortionTokens THEN Failed(kUnknownError)
  ELSE
    LET codec_name == Unescape(tokens[1])
        codec == CodecFromName(codec_name.value)
        chroma_subsampling == SubsamplingFromString(tokens[2])
        image_path == Unescape(tokens[5])
        encoded_path == Unescape(tokens[9])
        N(t) == ParseNumber(tokens[t])
    IN IF codec_name.status # kOk \/ codec.status # kOk THEN Failed(kUnknownError)
       ELSE IF chroma_subsampling.status # kOk THEN Failed(kUnknownError)
       ELSE IF ~IsNumber(tokens[3]) THEN Failed(kException)
       ELSE IF ~(N(3) <= 10) THEN Failed(kUnknownError)
       ELSE IF ~IsNumber(tokens[4]) THEN Failed(kException)
       ELSE IF ~(N(4) = kQualityLossless \/ (N(4) >= 0 /\ N(4) <= 100))
       THEN Failed(kUnknownError)
       ELSE IF image_path.status # kOk THEN Failed(kUnknownError)
       ELSE IF \E t \in 6..8 : ~IsNumber(tokens[t]) THEN Failed(kException)
       ELSE IF encoded_path.status # kOk THEN Failed(kUnknownError)
       ELSE IF \E t \in 10..13 : ~IsNumber(tokens[t]) THEN Failed(kException)
       ELSE IF ~(N(6) > 0 /\ N(7) > 0 /\ N(8) > 0) THEN Failed(kUnknownError)
       ELSE IF ~(N(10) > 0) THEN Failed(kUnknownError)
       ELSE IF ~(N(11) > 0) THEN Failed(kUnknownError)
       ELSE IF ~(N(12) > 0) THEN Failed(kUnknownError)
       ELSE [status |-> kOk,
             value |->
               TaskOutput(
                 TaskInput(CodecSettings(codec.value, chroma_subsampling.value,
                                         N(3), N(4)),
                           image_path.value, encoded_path.value),
                 N(6), N(7), N(8), N(10), N(11), N(12), N(13),
                 [m \in 1..kNumDistortionMetrics |-> Indeterminate])]

\* static StatusOr<TaskOutput> TaskOutput::UnserializeNoDistortion(line, quiet)
UnserializeNoDistortion(serialized_task) ==
  UnserializeTokensNoDistortion(Split(serialized_task, CharComma))

\* static StatusOr<TaskOutput> TaskOutput::Unserialize(line, quiet)
Unserialize(serialized_task) ==
  LET tokens == Split(serialized_task, CharComma)
      task == UnserializeTokensNoDistortion(tokens)
      D(m) == ParseNumber(tokens[kNumNonDistortionTokens + m])
  IN IF task.status # kOk THEN task
     ELSE IF Len(tokens) = kNumNonDistortionTokens
     THEN [task EXCEPT !.value.distortions =
             [m \in 1..kNumDistortionMetrics |-> NoDistortion]]
     ELSE IF Len(tokens) # kNumNonDistortionTokens + kNumDistortionMetrics
     THEN Failed(kUnknownError)
     ELSE IF \E m \in 1..kNumDistortionMetrics :
               ~IsNumber(tokens[kNumNonDistortionTokens + m])
     THEN Failed(kException)
     ELSE IF \E m \in 1..kNumDistortionMetrics :
               /\ m - 1 # kLibjxlButteraugli
               /\ m - 1 # kLibjxlSsimulacra2
               /\ ~(D(m) <= NoDistortion)
     THEN Failed(kUnknownError)
     ELSE [task EXCEPT !.value.distortions =
             [m \in 1..kNumDistortionMetrics |-> D(m)]]

(***************************************************************************)
(* Aggregation (src/task.cc).                                              *)
(***************************************************************************)
Abs(x) == IF x < 0 THEN -x ELSE x

RECURSIVE Gcd(_, _)
Gcd(a, b) == IF b = 0 THEN a ELSE Gcd(b, a % b)

\* The quotient sum / count of a double by an integer, kept exact as a
\* fraction in lowest terms.
Quotient(sum, count) ==
  LET g == Gcd(sum, count)
  IN [num |-> sum \div g, den |-> count \div g]

\* bool SameDistortion(float a, float b)
SameDistortion(a, b) ==
  IF a >= NoDistortion THEN b >= NoDistortion
  ELSE IF b >= NoDistortion THEN FALSE
  ELSE Abs(a - b) < SameDistortionTolerance

\* bool TaskOutputsAreRepetitions(const TaskOutput& a, const TaskOutput& b)
TaskOutputsAreRepetitions(a, b) ==
  /\ TaskInputEq(a.task_input, b.task_input)
  /\ a.image_width = b.image_width
  /\ a.image_height = b.image_height
  /\ a.num_frames = b.num_frames
  /\ a.encoded_size = b.encoded_size
  /\ \A m \in 1..kNumDistortionMetrics :
       SameDistortion(a.distortions[m], b.distortions[m])

\* The key of image_and_quality_to_results: image path, then quality.
ImageAndQuality(result) ==
  << result.task_input.image_path, result.task_input.codec_settings.quality >>

\* Mutant: a repetition replaces the durations instead of being added.
AccumulateLast(entry, result) ==
  [task_output |->
     [entry.task_output EXCEPT
        !.encoding_duration = result.encoding_duration,
        !.decoding_duration = result.decoding_duration,
        !.decoding_color_conversion_duration =
           result.decoding_color_conversion_duration],
   count |-> entry.count + 1]

\* The body of `if (!was_inserted)` once the repetition check has passed.
Accumulate(entry, result) ==
  [task_output |->
     [entry.task_output EXCEPT
        !.encoding_duration = @ + result.encoding_duration,
        !.decoding_duration = @ + result.decoding_duration,
        !.decoding_color_conversion_duration =
           @ + result.decoding_color_conversion_duration],
   count |-> entry.count + 1]

\* The first loop of AggregateResultsByImageAndQuality(): results from
\* position i on, with the map built so far.
RECURSIVE AggregateLoop(_, _, _)
AggregateLoop(results, i, map) ==
  IF i > Len(results) THEN [status |-> kOk, value |-> map]
  ELSE LET result == results[i]
           key == ImageAndQuality(result)
       IN IF key \notin DOMAIN map
          THEN AggregateLoop(results, i + 1,
                             map @@ (key :> [task_output |-> result,
                                             count |-> 1]))
          ELSE IF ~TaskOutputsAreRepetitions(map[key].task_output, result)
          THEN Failed(kUnknownError)
          ELSE AggregateLoop(results, i + 1,
                             [map EXCEPT ![key] = Accumulate(@, result)])

\* The second loop: one averaged TaskOutput per key.
Averaged(entry) ==
  [entry.task_output EXCEPT
     !.encoding_duration = Quotient(@, entry.count),
     !.decoding_duration = Quotient(@, entry.count),
     !.decoding_color_conversion_duration = Quotient(@, entry.count)]

\* The comparator of the std::sort in
\* SplitByCodecSettingsAndAggregateByImageAndQuality().
ImageAndQualityLess(a, b) ==
  \/ StringLess(a.task_input.image_path, b.task_input.image_path)
  \/ /\ a.task_input.image_path = b.task_input.image_path
     /\ a.task_input.codec_settings.quality < b.task_input.codec_settings.quality

\* Some sequence holding each element of the set S once.
RECURSIVE SeqOfSet(_)
SeqOfSet(S) ==
  IF S = {} THEN << >>
  ELSE LET x == CHOOSE x \in S : TRUE IN << x >> \o SeqOfSet(S \ { x })

\* StatusOr<std::vector<TaskOutput>> AggregateResultsByImageAndQuality(...)
\* followed by the std::sort of its caller.  The map is unordered, so the
\* order before the sort is unspecified; its keys differ pairwise in (image
\* path, quality), so the sort leaves exactly one order.
AggregateResultsByImageAndQuality(results) ==
  LET loop == AggregateLoop(results, 1, << >>)
  IN IF loop.status # kOk THEN loop
     ELSE [status |-> kOk,
           value |->
             CHOOSE sorted \in
               SortedOrderings(
                 SeqOfSet({ Averaged(loop.value[key]) :
                            key \in DOMAIN loop.value }),
                 ImageAndQualityLess) : TRUE]

\* A comparator with the operands exchanged: descending order.
CodecSettingsGreater(a, b) ==
  \/ b.codec < a.codec
  \/ b.codec = a.codec /\ b.chroma_subsampling < a.chroma_subsampling
  \/ /\ b.codec = a.codec
     /\ b.chroma_subsampling = a.chroma_subsampling
     /\ b.effort < a.effort

\* The lambda cmp of SplitByCodecSettingsAndAggregateByImageAndQuality():
\* codec, then chroma subsampling, then effort; the quality is ignored.
CodecSettingsLess(a, b) ==
  \/ a.codec < b.codec
  \/ a.codec = b.codec /\ a.chroma_subsampling < b.chroma_subsampling
  \/ /\ a.codec = b.codec
     /\ a.chroma_subsampling = b.chroma_subsampling
     /\ a.effort < b.effort

\* Two settings the std::map holds under the same key.
SameGroup(a, b) == ~CodecSettingsLess(a, b) /\ ~CodecSettingsLess(b, a)

\* The key a result is stored under: (codec, chroma subsampling, effort).
GroupOf(result) ==
  [codec |-> result.task_input.codec_settings.codec,
   chroma_subsampling |-> result.task_input.codec_settings.chroma_subsampling,
   effort |-> result.task_input.codec_settings.effort]

\* The keys of the std::map in its iteration order (ascending by cmp).
GroupsInOrder(results) ==
  CHOOSE groups \in
    SortedOrderings(SeqOfSet({ GroupOf(results[i]) : i \in 1..Len(results) }),
                    CodecSettingsLess) : TRUE

\* map[key]: the results of one group in the order they were pushed.
ResultsOfGroup(results, group) ==
  LET InGroup(result) == GroupOf(result) = group
  IN SelectSeq(results, InGroup)

\* The second loop of SplitByCodecSettingsAndAggregateByImageAndQuality():
\* the groups from position g on, with the aggregates built so far.
RECURSIVE SplitLoopOverGroups(_, _, _, _)
SplitLoopOverGroups(results, groups, g, aggregated_results) ==
  IF g > Len(groups) THEN [status |-> kOk, value |-> aggregated_results]
  ELSE LET aggregate ==
             AggregateResultsByImageAndQuality(
               ResultsOfGroup(results, groups[g]))
       IN IF aggregate.status # kOk THEN Failed(aggregate.status)
          ELSE SplitLoopOverGroups(results, groups, g + 1,
                                   Append(aggregated_results, aggregate.value))

\* StatusOr<std::vector<std::vector<TaskOutput>>>
\* SplitByCodecSettingsAndAggregateByImageAndQuality(results, quiet)
SplitByCodecSettingsAndAggregateByImageAndQuality(results) ==
  SplitLoopOverGroups(results, GroupsInOrder(results), 1, << >>)

(***************************************************************************)
(* Reconciliation and ordering (src/framework.cc).                         *)
(***************************************************************************)
\* struct TaskInputComp, operator()(const TaskInput&, const TaskInput&)
TaskInputComp(a, b) ==
  IF a.codec_settings.codec < b.codec_settings.codec THEN TRUE
  ELSE IF a.codec_settings.codec > b.codec_settings.codec THEN FALSE
  ELSE IF a.codec_settings.chroma_subsampling
            < b.codec_settings.chroma_subsampling THEN TRUE
  ELSE IF a.codec_settings.chroma_subsampling
            > b.codec_settings.chroma_subsampling THEN FALSE
  ELSE IF a.codec_settings.effort < b.codec_settings.effort THEN TRUE
  ELSE IF a.codec_settings.effort > b.codec_settings.effort THEN FALSE
  ELSE IF a.codec_settings.quality < b.codec_settings.quality THEN TRUE
  ELSE IF a.codec_settings.quality > b.codec_settings.quality THEN FALSE
  ELSE StringLess(a.image_path, b.image_path)

\* struct TaskInputComp, operator()(const TaskOutput&, const TaskOutput&)
TaskOutputComp(a, b) == TaskInputComp(a.task_input, b.task_input)

\* Mutant: a completed task that matches is not consumed, so the next equal
\* completed task matches the same planned task again.
RECURSIVE MergeLoopNoAdvance(_, _, _, _, _)
MergeLoopNoAdvance(completed_tasks, remaining_tasks, c, it, kept) ==
  IF c > Len(completed_tasks)
  THEN [status |-> kOk,
        value |-> kept \o SubSeq(remaining_tasks, it, Len(remaining_tasks))]
  ELSE IF it > Len(remaining_tasks) THEN Failed(kUnknownError)
  ELSE IF ~TaskInputEq(remaining_tasks[it], completed_tasks[c].task_input)
  THEN MergeLoopNoAdvance(completed_tasks, remaining_tasks, c, it + 1,
                          Append(kept, remaining_tasks[it]))
  ELSE MergeLoopNoAdvance(completed_tasks, remaining_tasks, c + 1, it, kept)

\* The merge of RemoveCompletedTasksFromRemainingTasks() over the two sorted
\* vectors: completed task c, the cursor it_remaining_task and
\* kept_remaining_tasks so far.
RECURSIVE MergeLoop(_, _, _, _, _)
MergeLoop(completed_tasks, remaining_tasks, c, it, kept) ==
  IF c > Len(completed_tasks)
  THEN [status |-> kOk,
        value |-> kept \o SubSeq(remaining_tasks, it, Len(remaining_tasks))]
  ELSE IF it > Len(remaining_tasks) THEN Failed(kUnknownError)
  ELSE IF ~TaskInputEq(remaining_tasks[it], completed_tasks[c].task_input)
  THEN MergeLoop(completed_tasks, remaining_tasks, c, it + 1,
                 Append(kept, remaining_tasks[it]))
  ELSE MergeLoop(completed_tasks, remaining_tasks, c + 1, it + 1, kept)

\* Mutant: the count of completed tasks is not checked before the merge.
CountCheckSkipped(completed_tasks, remaining_tasks) == TRUE

\* The first CHECK_OR_RETURN of RemoveCompletedTasksFromRemainingTasks().
CountCheck(completed_tasks, remaining_tasks) ==
  Len(completed_tasks) <= Len(remaining_tasks)

\* Status RemoveCompletedTasksFromRemainingTasks(settings, path,
\*     completed_tasks, remaining_tasks): the outcomes it may have, each with
\* the two vectors as it leaves them and the check that failed, if any.
\* std::sort leaves equivalent elements in an unspecified order, so there is
\* one outcome per pair of sorted orders.
RemoveCompletedTasksFromRemainingTasks(completed_tasks, remaining_tasks) ==
  IF ~CountCheck(completed_tasks, remaining_tasks)
  THEN { [status |-> kUnknownError, failed_check |-> "count",
          completed_tasks |-> completed_tasks,
          remaining_tasks |-> remaining_tasks] }
  ELSE { LET merged == MergeLoop(sorted_completed, sorted_remaining, 1, 1, << >>)
         IN IF merged.status # kOk
            THEN [status |-> merged.status, failed_check |-> "match",
                  completed_tasks |-> sorted_completed,
                  remaining_tasks |-> sorted_remaining]
            ELSE [status |-> kOk, failed_check |-> "none",
                  completed_tasks |-> sorted_completed,
                  remaining_tasks |-> merged.value] :
           sorted_completed \in SortedOrderings(completed_tasks, TaskOutputComp),
           sorted_remaining \in SortedOrderings(remaining_tasks, TaskInputComp) }

\* Status ShuffleRemainingTasks(settings, remaining_tasks): the vectors it
\* may leave (any order when random_order, else the reverse).
ShuffleRemainingTasks(settings, remaining_tasks) ==
  IF settings.random_order THEN Orderings(remaining_tasks)
  ELSE { Reverse(remaining_tasks) }

(***************************************************************************)
(* State.                                                                  *)
(***************************************************************************)
VARIABLES
  args,                 \* the arguments of the running Compare() call
  files,                \* the file system: the log and its backup
  compare_pc,           \* where the main thread is in Compare()
  compare_status,       \* what the last Compare() call returned
  results,              \* the aggregate the last Compare() call computed
  codec_version,        \* which build of the codecs EncodeDecode() runs
  context,              \* the WorkerContext of the pool that is running
  loaded_tasks,         \* Compare()'s context while the recompute pool runs
  num_workers,          \* WorkerPool::num_workers_
  pool_pc,              \* where the main thread is in WorkerPool::Run()
  pool_i,               \* the loop variable of WorkerPool::Run()
  mutex,                \* WorkerPool::mutex_: its owner, or Unlocked
  pc,                   \* where each worker is in Worker::Run()
  local,                \* the fields of each TaskWorker
  monitor,              \* observer: the hook calls of each worker so far
  observed,             \* observer: what the running Compare() call has done
  calls                 \* observer: a summary of each finished Compare() call

vars == << args, files, compare_pc, compare_status, results, codec_version,
           context, loaded_tasks, num_workers, pool_pc, pool_i, mutex, pc,
           local, monitor, observed, calls >>

pool_vars == << num_workers, pool_pc, pool_i, mutex, pc, local, monitor >>

\* The workers a pool of the model can have: 0 .. MaxPoolSize - 1.
MaxPoolSize == IF MaxWorkers > 1 + MaxExtraThreads THEN MaxWorkers
               ELSE 1 + MaxExtraThreads
WorkerIds == 0..(MaxPoolSize - 1)

Unlocked == -1
\* A file: whether it exists, and its lines.
NoFile == [exists |-> FALSE, lines |-> << >>]
File(lines) == [exists |-> TRUE, lines |-> lines]

\* WorkerContext as its default member initialisers leave it.  The log
\* itself (completed_tasks_file) is files.log; quiet and the progress clock
\* only drive what is printed.
NewWorkerContext ==
  [status |-> kOk,
   completed_tasks |-> << >>,
   remaining_tasks |-> << >>,
   load_encoded_from_disk |-> FALSE,
   written_files |-> {},
   completed_tasks_file_path |-> EmptyString,
   num_tasks |-> 0,
   num_failures |-> 0,
   num_completed_tasks_since_start |-> 0]

\* A TaskWorker as constructed.
\* current_task_input_ before the first AssignTask(): no path; its codec
\* settings are never read before AssignTask() has written them.
NoTask == TaskInput(CodecSettings(kWebp, kDefault, 0, 0), EmptyString,
                   EmptyString)
NewTaskWorker ==
  [current_task_input |-> NoTask,
   encode_mode |-> kEncode,
   current_task_output |-> Failed(kUnknownError),
   serialized_current_task_output |-> EmptyString]

(***************************************************************************)
(* EncodeDecode() (src/codec.cc), seen from the framework: what it may     *)
(* return for a task.  An encoding is a deterministic function of the task *)
(* and of the build of the codec; any call may fail (a file that cannot be *)
(* read, a codec error).                                                   *)
(***************************************************************************)
EncodeDecodeValue(input, version) ==
  TaskOutput(input, 8, 9, 1, 100 + version, 1234566, 2000000, 0,
             [m \in 1..kNumDistortionMetrics |->
                IF input.codec_settings.quality = kQualityLossless
                THEN NoDistortion ELSE 30 * DistortionScale + m])

EncodeDecode(input, encode_mode, version) ==
  { Failed(kUnknownError) }
  \cup (IF encode_mode = kLoadFromDisk /\ input.encoded_path = EmptyString
        THEN {}
        ELSE { [status |-> kOk, value |-> EncodeDecodeValue(input, version)] })

(***************************************************************************)
(* The hooks of TaskWorker (src/framework.cc), as functions of the context *)
(* and of the worker's own fields.                                         *)
(***************************************************************************)
\* The front of the vector in place of its back.
Front(v) == v[1]
Back(v) == v[Len(v)]
\* A pop_back() that leaves the vector as it is.
PopBackKeepsTask(v) == v
PopBack(v) == SubSeq(v, 1, Len(v) - 1)

\* bool TaskWorker::AssignTask(WorkerContext& context)
\* An AssignTask() that saves to disk every task that has an encoded path.
AssignTaskSavesEachTask(ctx, worker) ==
  IF ctx.remaining_tasks = << >>
  THEN [assign |-> FALSE, context |-> ctx, worker |-> worker]
  ELSE LET input == Back(ctx.remaining_tasks)
           mode == IF ctx.load_encoded_from_disk THEN kLoadFromDisk
                   ELSE IF input.encoded_path # EmptyString
                        THEN kEncodeAndSaveToDisk
                        ELSE kEncode
           written == IF ~ctx.load_encoded_from_disk
                         /\ input.encoded_path # EmptyString
                      THEN ctx.written_files \cup {input.encoded_path}
                      ELSE ctx.written_files
       IN [assign |-> TRUE,
           context |-> [ctx EXCEPT !.remaining_tasks = PopBack(@),
                                   !.written_files = written],
           worker |-> [worker EXCEPT !.current_task_input = input,
                                     !.encode_mode = mode]]

AssignTask(ctx, worker) ==
  IF ctx.remaining_tasks = << >>
  THEN [assign |-> FALSE, context |-> ctx, worker |-> worker]
  ELSE LET input == Back(ctx.remaining_tasks)
           inserted == input.encoded_path \notin ctx.written_files
           mode == IF ctx.load_encoded_from_disk THEN kLoadFromDisk
                   ELSE IF input.encoded_path # EmptyString /\ inserted
                        THEN kEncodeAndSaveToDisk
                        ELSE kEncode
           written == IF ~ctx.load_encoded_from_disk
                         /\ input.encoded_path # EmptyString
                      THEN ctx.written_files \cup {input.encoded_path}
                      ELSE ctx.written_files
       IN [assign |-> TRUE,
           context |-> [ctx EXCEPT !.remaining_tasks = PopBack(@),
                                   !.written_files = written],
           worker |-> [worker EXCEPT !.current_task_input = input,
                                     !.encode_mode = mode]]

\* void TaskWorker::DoTask(): the worker's fields for each result
\* EncodeDecode() may give.
DoTask(worker, version) ==
  { [worker EXCEPT
       !.current_task_output = output,
       !.serialized_current_task_output =
          IF output.status # kOk THEN @ ELSE Serialize(output.value)] :
    output \in EncodeDecode(worker.current_task_input, worker.encode_mode,
                            version) }

\* The test of the threshold in EndTask().
ThresholdOneLater(num_failures) == num_failures > kMaxNumFailures + 1
ThresholdAtLeast(num_failures) == num_failures >= kMaxNumFailures
ThresholdExceeded(num_failures) == num_failures > kMaxNumFailures

\* The status EndTask() keeps when a task failed.
FirstFailure(status, failure) == IF status = kOk THEN failure ELSE status

\* An EndTask() that leaves num_tasks as it is when the task failed.
EndTaskKeepsNumTasks(ctx, worker, log) ==
  LET output == worker.current_task_output
      cleared == [worker EXCEPT !.serialized_current_task_output = EmptyString]
  IN IF output.status = kOk
     THEN [context |-> [ctx EXCEPT
                          !.completed_tasks = Append(@, output.value),
                          !.num_completed_tasks_since_start = @ + 1],
           worker |-> cleared,
           log |-> IF ctx.completed_tasks_file_path # EmptyString
                   THEN File(Append(log.lines,
                                    worker.serialized_current_task_output))
                   ELSE log]
     ELSE [context |-> [ctx EXCEPT
                          !.status = FirstFailure(@, output.status),
                          !.num_failures = @ + 1,
                          !.remaining_tasks =
                             IF ThresholdExceeded(ctx.num_failures + 1)
                             THEN << >> ELSE @],
           worker |-> cleared,
           log |-> log]

\* An EndTask() that completes the successful task without writing its line.
EndTaskSkipsLog(ctx, worker, log) ==
  LET output == worker.current_task_output
      cleared == [worker EXCEPT !.serialized_current_task_output = EmptyString]
  IN IF output.status = kOk
     THEN [context |-> [ctx EXCEPT
                          !.completed_tasks = Append(@, output.value),
                          !.num_completed_tasks_since_start = @ + 1],
           worker |-> cleared, log |-> log]
     ELSE [context |-> [ctx EXCEPT
                          !.status = FirstFailure(@, output.status),
                          !.num_tasks = @ - 1,
                          !.num_failures = @ + 1,
                          !.remaining_tasks =
                             IF ThresholdExceeded(ctx.num_failures + 1)
                             THEN << >> ELSE @],
           worker |-> cleared, log |-> log]

\* void TaskWorker::EndTask(WorkerContext& context); log is the content of
\* context.completed_tasks_file.
EndTask(ctx, worker, log) ==
  LET output == worker.current_task_output
      cleared == [worker EXCEPT !.serialized_current_task_output = EmptyString]
  IN IF output.status = kOk
     THEN [context |-> [ctx EXCEPT
                          !.completed_tasks = Append(@, output.value),
                          !.num_completed_tasks_since_start = @ + 1],
           worker |-> cleared,
           log |-> IF ctx.completed_tasks_file_path # EmptyString
                   THEN File(Append(log.lines,
                                    worker.serialized_current_task_output))
                   ELSE log]
     ELSE [context |-> [ctx EXCEPT
                          !.status = FirstFailure(@, output.status),
                          !.num_tasks = @ - 1,
                          !.num_failures = @ + 1,
                          !.remaining_tasks =
                             IF ThresholdExceeded(ctx.num_failures + 1)
                             THEN << >> ELSE @],
           worker |-> cleared,
           log |-> log]

(***************************************************************************)
(* Worker<WorkerContext, WorkerImpl> (src/worker.h): each worker runs      *)
(*   while (LockAndAssignTask()) { DoTask(); LockAndEndTask(); }           *)
(* A worker whose pc is "AssignTask" or "EndTask" is inside that hook and  *)
(* owns the mutex; one whose pc is "DoTask" is inside DoTask().            *)
(***************************************************************************)
\* What each hook call does to the observer of a worker's calls.
MonitorStep(state, hook) ==
  CASE state = "Idle" /\ hook = "AssignTask:true" -> "Running"
    [] state = "Idle" /\ hook = "AssignTask:false" -> "Terminated"
    [] state = "Running" /\ hook = "DoTask" -> "Ended"
    [] state = "Ended" /\ hook = "EndTask" -> "Idle"
    [] OTHER -> "OutOfOrder"

\* mutex_.lock() returns once no thread owns the mutex.
LockNeverWaits(owner) == TRUE
LockReturns(owner) == owner = Unlocked

\* mutex_.unlock()
UnlockKeepsOwner(owner) == owner
Unlock(owner) == Unlocked

\* The condition of the loop of Worker::Run().
RunLoopIgnoresAssign(assign) == TRUE
RunLoopCondition(assign) == assign

\* The pool whose workers are running: that of Compare(), or that of
\* ComputeDistortionInCompletedTasks().
InRecompute == compare_pc = "ComputeDistortionInCompletedTasks"

\* What the observer files of a task AssignTask() has just given to worker:
\* the pool, the encoded path, the mode, and whether the path is given for
\* the first time in the run of that pool.
ModeGiven(worker) ==
  [recompute |-> InRecompute,
   encoded_path |-> worker.current_task_input.encoded_path,
   encode_mode |-> worker.encode_mode,
   first |-> ~\E e \in observed.modes :
                /\ e.recompute = InRecompute
                /\ e.encoded_path = worker.current_task_input.encoded_path]

\* LockAndAssignTask(): mutex_.lock()
WorkerLockAndAssignTask(w) ==
  /\ pc[w] = "LockAndAssignTask"
  /\ LockReturns(mutex)
  /\ mutex' = w
  /\ pc' = [pc EXCEPT ![w] = "AssignTask"]
  /\ UNCHANGED << args, files, compare_pc, compare_status, results,
                  codec_version, context, loaded_tasks, num_workers, pool_pc,
                  pool_i, local, monitor, observed, calls >>

\* LockAndAssignTask(): AssignTask(context_), mutex_.unlock(), and the test
\* of the loop of Run().
WorkerAssignTask(w) ==
  /\ pc[w] = "AssignTask"
  /\ LET r == AssignTask(context, local[w])
     IN /\ context' = r.context
        /\ local' = [local EXCEPT ![w] = r.worker]
        /\ pc' = [pc EXCEPT ![w] = IF RunLoopCondition(r.assign)
                                   THEN "DoTask" ELSE "Finished"]
        /\ monitor' = [monitor EXCEPT ![w] =
                         MonitorStep(@, IF r.assign THEN "AssignTask:true"
                                        ELSE "AssignTask:false")]
        /\ observed' = IF ~r.assign THEN observed
                       ELSE IF InRecompute
                            THEN [observed EXCEPT
                                    !.recomputed = @ + 1,
                                    !.modes = @ \cup {ModeGiven(r.worker)}]
                            ELSE [observed EXCEPT
                                    !.assigned = @ + 1,
                                    !.modes = @ \cup {ModeGiven(r.worker)}]
  /\ mutex' = Unlock(mutex)
  /\ UNCHANGED << args, files, compare_pc, compare_status, results,
                  codec_version, loaded_tasks, num_workers, pool_pc, pool_i,
                  calls >>

\* DoTask()
WorkerDoTask(w) ==
  /\ pc[w] = "DoTask"
  /\ \E worker \in DoTask(local[w], codec_version) :
        local' = [local EXCEPT ![w] = worker]
  /\ pc' = [pc EXCEPT ![w] = "LockAndEndTask"]
  /\ monitor' = [monitor EXCEPT ![w] = MonitorStep(@, "DoTask")]
  /\ UNCHANGED << args, files, compare_pc, compare_status, results,
                  codec_version, context, loaded_tasks, num_workers, pool_pc,
                  pool_i, mutex, observed, calls >>

\* LockAndEndTask(): mutex_.lock()
WorkerLockAndEndTask(w) ==
  /\ pc[w] = "LockAndEndTask"
  /\ LockReturns(mutex)
  /\ mutex' = w
  /\ pc' = [pc EXCEPT ![w] = "EndTask"]
  /\ UNCHANGED << args, files, compare_pc, compare_status, results,
                  codec_version, context, loaded_tasks, num_workers, pool_pc,
                  pool_i, local, monitor, observed, calls >>

\* LockAndEndTask(): EndTask(context_) and mutex_.unlock()
WorkerEndTask(w) ==
  /\ pc[w] = "EndTask"
  /\ LET r == EndTask(context, local[w], files.log)
     IN /\ context' = r.context
        /\ local' = [local EXCEPT ![w] = r.worker]
        /\ files' = [files EXCEPT !.log = r.log]
  /\ mutex' = Unlock(mutex)
  /\ pc' = [pc EXCEPT ![w] = "LockAndAssignTask"]
  /\ monitor' = [monitor EXCEPT ![w] = MonitorStep(@, "EndTask")]
  /\ UNCHANGED << args, compare_pc, compare_status, results, codec_version,
                  loaded_tasks, num_workers, pool_pc, pool_i, observed,
                  calls >>

(***************************************************************************)
(* WorkerPool::Run(context) (src/worker.h): the main thread starts the     *)
(* workers in order, the last one inline, then joins the threads.          *)
(***************************************************************************)
\* const bool multithreaded = i + 1 < num_workers_;
Multithreaded(i) == i + 1 < num_workers

\* A first loop of WorkerPool::Run() that tests its condition after the body.
PoolStartWorkerThenTest ==
  /\ pool_pc = "Start"
  /\ pool_i < num_workers \/ pool_i = 0
  /\ pc' = [pc EXCEPT ![pool_i] = "LockAndAssignTask"]
  /\ IF Multithreaded(pool_i)
     THEN /\ pool_i' = pool_i + 1
          /\ UNCHANGED pool_pc
     ELSE /\ pool_pc' = "Run"
          /\ UNCHANGED pool_i
  /\ UNCHANGED << args, files, compare_pc, compare_status, results,
                  codec_version, context, loaded_tasks, num_workers, mutex,
                  local, monitor, observed, calls >>

\* workers.push_back(WorkerImpl(...)); workers.back().Start(): a thread
\* that runs Run(), or Run() itself in the main thread.
PoolStartWorker ==
  /\ pool_pc = "Start"
  /\ pool_i < num_workers
  /\ pc' = [pc EXCEPT ![pool_i] = "LockAndAssignTask"]
  /\ IF Multithreaded(pool_i)
     THEN /\ pool_i' = pool_i + 1
          /\ UNCHANGED pool_pc
     ELSE /\ pool_pc' = "Run"
          /\ UNCHANGED pool_i
  /\ UNCHANGED << args, files, compare_pc, compare_status, results,
                  codec_version, context, loaded_tasks, num_workers, mutex,
                  local, monitor, observed, calls >>

\* Run() of the worker of the main thread returns, and so does Start().
PoolInlineRunReturns ==
  /\ pool_pc = "Run"
  /\ pc[pool_i] = "Finished"
  /\ pool_pc' = "Start"
  /\ pool_i' = pool_i + 1
  /\ UNCHANGED << args, files, compare_pc, compare_status, results,
                  codec_version, context, loaded_tasks, num_workers, mutex, pc,
                  local, monitor, observed, calls >>

\* The first loop of WorkerPool::Run() ends.
PoolAllStarted ==
  /\ pool_pc = "Start"
  /\ pool_i = num_workers
  /\ pool_pc' = "Finish"
  /\ pool_i' = 0
  /\ UNCHANGED << args, files, compare_pc, compare_status, results,
                  codec_version, context, loaded_tasks, num_workers, mutex, pc,
                  local, monitor, observed, calls >>

\* thread_.join() returns once the thread has left Run().
JoinNeverWaits(i) == TRUE
JoinReturns(i) == Multithreaded(i) => pc[i] = "Finished"

\* worker.Finish()
PoolFinishWorker ==
  /\ pool_pc = "Finish"
  /\ pool_i < num_workers
  /\ JoinReturns(pool_i)
  /\ pool_i' = pool_i + 1
  /\ UNCHANGED << args, files, compare_pc, compare_status, results,
                  codec_version, context, loaded_tasks, num_workers, pool_pc,
                  mutex, pc, local, monitor, observed, calls >>

\* WorkerPool::Run() returns.
PoolRunReturns ==
  /\ pool_pc = "Finish"
  /\ pool_i = num_workers
  /\ pool_pc' = "Returned"
  /\ UNCHANGED << args, files, compare_pc, compare_status, results,
                  codec_version, context, loaded_tasks, num_workers, pool_i,
                  mutex, pc, local, monitor, observed, calls >>

(***************************************************************************)
(* The inputs the specifications draw from.                                *)
(***************************************************************************)
\* The paths "a", "b" and "f".
ImageA == << 97 >>
ImageB == << 98 >>
FolderF == << 102 >>
LosslessWebp == CodecSettings(kWebp, k444, 0, kQualityLossless)
LossyWebp2 == CodecSettings(kWebp2, k420, 3, 75)

\* struct ComparisonSettings, the fields the framework reads.
ComparisonSettings(codec_settings, encoded_folder_path, num_repetitions, num_extra_threads, random_order, discard_distortion_values) ==
  [codec_settings |-> codec_settings,
   encoded_folder_path |-> encoded_folder_path,
   num_repetitions |-> num_repetitions,
   num_extra_threads |-> num_extra_threads,
   random_order |-> random_order,
   discard_distortion_values |-> discard_distortion_values]

\* The arguments of Compare().
CompareArgs(image_paths, settings, completed_tasks_file_path, results_folder_path) ==
  [image_paths |-> image_paths, settings |-> settings,
   completed_tasks_file_path |-> completed_tasks_file_path,
   results_folder_path |-> results_folder_path]

\* The tasks planned for the arguments of the state.
Planned == PlanTasks(args.image_paths, args.settings).value

NoResults == << >>
NewObserved == [assigned |-> 0, recomputed |-> 0, failed_check |-> "none",
                log_at_call |-> NoFile, modes |-> {}]

\* A pool of num workers about to run on ctx.
PoolAtStart(num, ctx) ==
  /\ context = ctx
  /\ num_workers = num
  /\ pool_pc = "Start"
  /\ pool_i = 0
  /\ mutex = Unlocked
  /\ pc = [w \in WorkerIds |-> "NotStarted"]
  /\ local = [w \in WorkerIds |-> NewTaskWorker]
  /\ monitor = [w \in WorkerIds |-> "Idle"]

(***************************************************************************)
(* SpecPool: one WorkerPool<WorkerContext, TaskWorker>::Run() of a pool of *)
(* 0 to MaxWorkers workers on a planned list of tasks.                     *)
(***************************************************************************)
PoolArgs ==
  { CompareArgs(image_paths,
                ComparisonSettings(<< LossyWebp2 >>, folder, repetitions, 0,
                                   FALSE, FALSE),
                EmptyString, EmptyString) :
      image_paths \in { << ImageA >>, << ImageA, ImageB >> },
      folder \in { EmptyString, FolderF },
      repetitions \in 0..MaxRepetitions }

InitPool ==
  /\ args \in PoolArgs
  /\ files = [log |-> NoFile, backup |-> NoFile]
  /\ compare_pc = "WorkerPool::Run"
  /\ compare_status = "running"
  /\ results = NoResults
  /\ codec_version = 0
  /\ loaded_tasks = << >>
  /\ observed = NewObserved
  /\ calls = << >>
  /\ \E num \in 0..MaxWorkers :
        PoolAtStart(num, [NewWorkerContext EXCEPT
                            !.remaining_tasks = Reverse(Planned),
                            !.num_tasks = Len(Planned)])

WorkerStep ==
  \E w \in WorkerIds :
     \/ WorkerLockAndAssignTask(w)
     \/ WorkerAssignTask(w)
     \/ WorkerDoTask(w)
     \/ WorkerLockAndEndTask(w)
     \/ WorkerEndTask(w)

PoolStep ==
  \/ PoolStartWorker
  \/ PoolInlineRunReturns
  \/ PoolAllStarted
  \/ PoolFinishWorker
  \/ PoolRunReturns

NextPool == WorkerStep \/ PoolStep

SpecPool == InitPool /\ [][NextPool]_vars

(***************************************************************************)
(* Properties of the pool (SpecPool).                                      *)
(***************************************************************************)
InHook(w) == pc[w] \in { "AssignTask", "EndTask" }
WaitsForMutex(w) == pc[w] \in { "LockAndAssignTask", "LockAndEndTask" }
InputsOf(outputs) == [i \in 1..Len(outputs) |-> outputs[i].task_input]

\* C1: in every state of a run of the pool at most one worker is inside
\* AssignTask() or EndTask(), and that worker owns the mutex.
C1_MutualExclusion ==
  /\ \A v, w \in WorkerIds : InHook(v) /\ InHook(w) => v = w
  /\ \A w \in WorkerIds : InHook(w) => mutex = w

\* A worker is inside a hook while two others wait for the mutex.
C1_Witness ==
  \E u, v, w \in WorkerIds :
     /\ u # v /\ u # w /\ v # w
     /\ InHook(u) /\ WaitsForMutex(v) /\ WaitsForMutex(w)

\* Every planned task has been assigned and ended exactly once.
AllTasksDone ==
  /\ Len(context.completed_tasks) = Len(Planned)
  /\ BagOf(InputsOf(context.completed_tasks)) = BagOf(Planned)
  /\ context.remaining_tasks = << >>
  /\ observed.assigned = Len(Planned)
  /\ context.num_completed_tasks_since_start = Len(Planned)

\* C2, amended: when Run() of a pool of at least one worker returns and no
\* task has failed, every planned task has been assigned and ended exactly
\* once: the completed tasks are the planned tasks, as many as planned, and
\* the queue is empty.
C2_PoolCompleteness ==
  pool_pc = "Returned" /\ context.num_failures = 0 /\ num_workers >= 1
    => AllTasksDone

\* C2, as stated: the same for a pool of any size >= 0.
C2_AnySize ==
  pool_pc = "Returned" /\ context.num_failures = 0 => AllTasksDone

\* A pool of several workers has returned with several tasks, all done.
C2_Witness ==
  /\ pool_pc = "Returned"
  /\ num_workers >= 2
  /\ context.num_failures = 0
  /\ Len(Planned) >= 2
  /\ AllTasksDone

\* C9: the hook calls of each worker are (AssignTask returning true, DoTask,
\* EndTask) repeated, then one AssignTask returning false: no call is out of
\* this order, the worker is where the calls made so far leave it, and after
\* an AssignTask that returned false it has left Run() and calls nothing.
C9_HookOrder ==
  \A w \in WorkerIds :
     /\ monitor[w] # "OutOfOrder"
     /\ monitor[w] = "Idle"
          <=> pc[w] \in { "NotStarted", "LockAndAssignTask", "AssignTask" }
     /\ monitor[w] = "Running" <=> pc[w] = "DoTask"
     /\ monitor[w] = "Ended" <=> pc[w] \in { "LockAndEndTask", "EndTask" }
     /\ monitor[w] = "Terminated" <=> pc[w] = "Finished"
     /\ pc[w] = "Finished" =>
          /\ ~ENABLED WorkerLockAndAssignTask(w)
          /\ ~ENABLED WorkerDoTask(w)
          /\ ~ENABLED WorkerLockAndEndTask(w)

\* Two workers have left Run(): one after running a task, one without ever
\* getting a task.
C9_Witness ==
  \E v, w \in WorkerIds :
     /\ monitor[v] = "Terminated" /\ local[v].current_task_input # NoTask
     /\ monitor[w] = "Terminated" /\ local[w].current_task_input = NoTask

\* A worker inside DoTask() does not own the mutex, whoever owns it is inside
\* a hook, and a hook entered while others are in DoTask() can complete.
DoTaskHoldsNothing ==
  /\ \A w \in WorkerIds : pc[w] = "DoTask" => mutex # w
  /\ mutex # Unlocked => InHook(mutex)
  /\ \A v, w \in WorkerIds :
        pc[w] = "DoTask" =>
          /\ pc[v] = "AssignTask" => ENABLED WorkerAssignTask(v)
          /\ pc[v] = "EndTask" => ENABLED WorkerEndTask(v)
          /\ WaitsForMutex(v) /\ mutex = Unlocked =>
               ENABLED (WorkerLockAndAssignTask(v) \/ WorkerLockAndEndTask(v))

\* DoTask() changes only the fields of its own worker.
DoTaskTouchesOnlyItsWorker ==
  \A w \in WorkerIds :
     WorkerDoTask(w) =>
       /\ context' = context
       /\ files' = files
       /\ mutex' = mutex
       /\ \A v \in WorkerIds \ {w} : local'[v] = local[v] /\ pc'[v] = pc[v]

\* C10: a worker inside DoTask() does not own the mutex, and whoever owns it
\* is inside a hook; a hook entered while others are in DoTask() can complete;
\* and DoTask() changes neither the context nor the log nor the fields of
\* another worker.
C10_DoTaskIsolated ==
  [](DoTaskHoldsNothing) /\ [][DoTaskTouchesOnlyItsWorker]_vars

\* Two workers are inside DoTask() while a third is inside AssignTask().
C10_Witness ==
  \E u, v, w \in WorkerIds :
     /\ u # v
     /\ pc[u] = "DoTask" /\ pc[v] = "DoTask" /\ pc[w] = "AssignTask"

(***************************************************************************)
(* SpecPoolFair: SpecPool under a fair scheduler.  Every thread that can   *)
(* take a step eventually takes one: each worker's Run() and the thread    *)
(* that called WorkerPool::Run().  std::mutex promises no order among the  *)
(* threads that wait for it, so the fairness is weak: a worker is only     *)
(* promised the mutex if it stays free.  DoTask() always returns           *)
(* (WorkerDoTask is a single step).                                        *)
(***************************************************************************)
\* The steps of Worker::Run() of worker w that the scheduler grants: the
\* locked hooks (src/worker.h).
WorkerHooks(w) ==
  \/ WorkerLockAndAssignTask(w)
  \/ WorkerAssignTask(w)
  \/ WorkerLockAndEndTask(w)
  \/ WorkerEndTask(w)

\* DoTask() of worker w returns: the step WorkerDoTask(w), whatever the
\* codec produced.  WorkerDoTask(w) is enabled exactly when pc[w] = "DoTask"
\* (EncodeDecode() always has an outcome) and each of its steps is one of
\* these.
DoTaskTerminates(w) ==
  /\ pc[w] = "DoTask"
  /\ pc' = [pc EXCEPT ![w] = "LockAndEndTask"]

SpecPoolFair ==
  /\ InitPool
  /\ [][NextPool]_vars
  /\ WF_vars(PoolStep)
  /\ \A w \in WorkerIds : WF_vars(WorkerHooks(w)) /\ WF_pc(DoTaskTerminates(w))

\* Worker w belongs to the pool, has seen AssignTask() return false and has
\* left Run().
SawAssignTaskReturnFalse(w) == monitor[w] = "Terminated" /\ pc[w] = "Finished"

\* Every worker of the pool has been through Finish().
AllJoined == pool_i = num_workers

\* C11: under a fair scheduler WorkerPool::Run() eventually returns, for
\* every number of workers and every queue (no deadlock on the mutex), and
\* when it has returned every worker of the pool, the ones on extra threads
\* included, has seen AssignTask() return false and has been joined.
C11_Termination ==
  /\ <>(pool_pc = "Returned")
  /\ [](pool_pc = "Returned" =>
          /\ AllJoined
          /\ mutex = Unlocked
          /\ \A w \in WorkerIds :
                w < num_workers => SawAssignTaskReturnFalse(w))

\* Run() of a pool of MaxWorkers workers has returned after the workers on
\* the extra threads have each ended a task.
C11_Witness ==
  /\ pool_pc = "Returned"
  /\ num_workers = MaxWorkers
  /\ AllJoined
  /\ \A w \in WorkerIds : SawAssignTaskReturnFalse(w)
  /\ context.num_completed_tasks_since_start + context.num_failures >= 2

(***************************************************************************)
(* SpecThreshold: one run of a pool of 1 to MaxThresholdWorkers workers on *)
(* more tasks than kMaxNumFailures + 1, the repetitions of one task, each  *)
(* of which may fail.                                                      *)
(***************************************************************************)
ThresholdArgs ==
  CompareArgs(<< ImageA >>,
              ComparisonSettings(<< LossyWebp2 >>, EmptyString,
                                 kMaxNumFailures + ExtraThresholdTasks, 0,
                                 FALSE, FALSE),
              EmptyString, EmptyString)

InitThreshold ==
  /\ args = ThresholdArgs
  /\ files = [log |-> NoFile, backup |-> NoFile]
  /\ compare_pc = "WorkerPool::Run"
  /\ compare_status = "running"
  /\ results = NoResults
  /\ codec_version = 0
  /\ loaded_tasks = << >>
  /\ observed = NewObserved
  /\ calls = << >>
  /\ \E num \in 1..MaxThresholdWorkers :
        PoolAtStart(num, [NewWorkerContext EXCEPT
                            !.remaining_tasks = Reverse(Planned),
                            !.num_tasks = Len(Planned)])

SpecThreshold == InitThreshold /\ [][NextPool]_vars

\* EndTask() empties the queue on a failure that takes the count over
\* kMaxNumFailures, and otherwise leaves it as it is.
EndTaskDrains ==
  \A w \in WorkerIds :
     WorkerEndTask(w) =>
       IF local[w].current_task_output.status # kOk
          /\ context.num_failures + 1 > kMaxNumFailures
       THEN /\ context'.remaining_tasks = << >>
            /\ context'.num_failures = context.num_failures + 1
       ELSE context'.remaining_tasks = context.remaining_tasks

\* With the count over kMaxNumFailures AssignTask() returns false.
NoTaskAfterDrain ==
  \A w \in WorkerIds :
     WorkerAssignTask(w) /\ context.num_failures > kMaxNumFailures =>
       /\ pc'[w] = "Finished"
       /\ observed'.assigned = observed.assigned
       /\ context' = context

DrainedQueueStaysEmpty ==
  context.num_failures > kMaxNumFailures => context.remaining_tasks = << >>

\* C6: EndTask() empties remaining_tasks exactly when the failure count it
\* has just incremented exceeds kMaxNumFailures; an EndTask() of a success,
\* or of a failure that leaves the count at 32 or less, leaves the queue as
\* it is; and once the count exceeds 32 the queue stays empty and every
\* AssignTask() returns false, so that no task is started.
C6_ThresholdDraining ==
  /\ [][EndTaskDrains /\ NoTaskAfterDrain]_vars
  /\ [](DrainedQueueStaysEmpty)

\* The 33rd failure has emptied a queue that still held tasks, and the pool
\* has returned without starting them.
C6_Witness ==
  /\ pool_pc = "Returned"
  /\ context.num_failures = kMaxNumFailures + 1
  /\ observed.assigned < Len(Planned)
  /\ context.remaining_tasks = << >>
  /\ num_workers >= 2

(***************************************************************************)
(* Compare() (src/framework.cc) and the functions it calls.                *)
(***************************************************************************)
\* std::filesystem::exists(completed_tasks_file_path)
Exists(path, fs) == path # EmptyString /\ fs.log.exists

\* The loop of LoadTasks() over the lines from position i on.
RECURSIVE LoadLines(_, _, _, _)
LoadLines(settings, lines, i, completed_tasks) ==
  IF i > Len(lines) THEN [status |-> kOk, value |-> completed_tasks]
  ELSE LET task_output == IF settings.discard_distortion_values
                          THEN UnserializeNoDistortion(lines[i])
                          ELSE Unserialize(lines[i])
       IN IF task_output.status # kOk THEN Failed(task_output.status)
          ELSE LoadLines(settings, lines, i + 1,
                         Append(completed_tasks, task_output.value))

\* StatusOr<std::vector<TaskOutput>> LoadTasks(settings, path)
LoadTasks(settings, completed_tasks_file_path, fs) ==
  IF Exists(completed_tasks_file_path, fs)
  THEN LoadLines(settings, fs.log.lines, 1, << >>)
  ELSE [status |-> kOk, value |-> << >>]

\* The first loop of ComputeDistortionInCompletedTasks(): one task for each
\* encoded path, in the order of the first entry that has it.
RECURSIVE UniqueEncodedPaths(_, _, _, _)
UniqueEncodedPaths(completed_tasks, i, encoded_paths, remaining_tasks) ==
  IF i > Len(completed_tasks)
  THEN [status |-> kOk, value |-> remaining_tasks]
  ELSE LET input == completed_tasks[i].task_input
       IN IF input.encoded_path = EmptyString THEN Failed(kUnknownError)
          ELSE IF input.encoded_path \in encoded_paths
          THEN UniqueEncodedPaths(completed_tasks, i + 1, encoded_paths,
                                  remaining_tasks)
          ELSE UniqueEncodedPaths(completed_tasks, i + 1,
                                  encoded_paths \cup {input.encoded_path},
                                  Append(remaining_tasks, input))

\* The context ComputeDistortionInCompletedTasks() gives its pool.
RecomputeContext(remaining_tasks) ==
  [NewWorkerContext EXCEPT !.load_encoded_from_disk = TRUE,
                           !.remaining_tasks = remaining_tasks,
                           !.num_tasks = Len(remaining_tasks)]

\* A copy that gives every entry the distortions of the first result.
CopyDistortionsOfFirst(ctx, completed_tasks) ==
  LET recomputed == ctx.completed_tasks
      Paths == { recomputed[i].task_input.encoded_path :
                 i \in 1..Len(recomputed) }
  IN IF Len(recomputed) # ctx.num_tasks THEN Failed(kUnknownError)
     ELSE IF Cardinality(Paths) # Len(recomputed) THEN Failed(kUnknownError)
     ELSE IF \E i \in 1..Len(completed_tasks) :
                completed_tasks[i].task_input.encoded_path \notin Paths
     THEN Failed(kUnknownError)
     ELSE [status |-> kOk,
           value |->
             [i \in 1..Len(completed_tasks) |->
                [completed_tasks[i] EXCEPT !.distortions =
                   recomputed[1].distortions]]]

\* A copy that leaves an entry as it is when its encoded path has no result.
CopyDistortionsWhereFound(ctx, completed_tasks) ==
  LET recomputed == ctx.completed_tasks
      Paths == { recomputed[i].task_input.encoded_path :
                 i \in 1..Len(recomputed) }
      ResultOf(path) ==
        recomputed[CHOOSE i \in 1..Len(recomputed) :
                     recomputed[i].task_input.encoded_path = path]
  IN IF Len(recomputed) # ctx.num_tasks THEN Failed(kUnknownError)
     ELSE IF Cardinality(Paths) # Len(recomputed) THEN Failed(kUnknownError)
     ELSE [status |-> kOk,
           value |->
             [i \in 1..Len(completed_tasks) |->
                IF completed_tasks[i].task_input.encoded_path \notin Paths
                THEN completed_tasks[i]
                ELSE [completed_tasks[i] EXCEPT !.distortions =
                        ResultOf(completed_tasks[i].task_input.encoded_path)
                          .distortions]]]

\* ComputeDistortionInCompletedTasks() after pool.Run(): the status, and the
\* loaded entries with the distortions of the result of their encoded path.
CopyDistortions(ctx, completed_tasks) ==
  LET recomputed == ctx.completed_tasks
      Paths == { recomputed[i].task_input.encoded_path :
                 i \in 1..Len(recomputed) }
      ResultOf(path) ==
        recomputed[CHOOSE i \in 1..Len(recomputed) :
                     recomputed[i].task_input.encoded_path = path]
  IN IF Len(recomputed) # ctx.num_tasks THEN Failed(kUnknownError)
     ELSE IF Cardinality(Paths) # Len(recomputed) THEN Failed(kUnknownError)
     ELSE IF \E i \in 1..Len(completed_tasks) :
                completed_tasks[i].task_input.encoded_path \notin Paths
     THEN Failed(kUnknownError)
     ELSE [status |-> kOk,
           value |->
             [i \in 1..Len(completed_tasks) |->
                [completed_tasks[i] EXCEPT !.distortions =
                   ResultOf(completed_tasks[i].task_input.encoded_path)
                     .distortions]]]

\* The lines Compare() dumps after a recomputation.
SerializeAll(completed_tasks) ==
  [i \in 1..Len(completed_tasks) |-> Serialize(completed_tasks[i])]

\* The condition under which Compare() returns context.status after the
\* pool has run.
ReturnsStatusOnAnyFailure(ctx) == ctx.num_failures > 0
ReturnsStatusOnlyWithoutSuccess(ctx) ==
  ctx.num_completed_tasks_since_start = 0
ReturnsStatusOfPool(ctx) ==
  ctx.num_failures > kMaxNumFailures \/ ctx.num_completed_tasks_since_start = 0

\* What TasksToJson() may return (src/result_json.cc): the file may not open.
TasksToJson == { kOk, kUnknownError }

\* WorkerPool<WorkerContext, TaskWorker> pool(num); pool.Run(context) begins.
PoolStarts(num) ==
  /\ num_workers' = num
  /\ pool_pc' = "Start"
  /\ pool_i' = 0
  /\ mutex' = Unlocked
  /\ pc' = [w \in WorkerIds |-> "NotStarted"]
  /\ local' = [w \in WorkerIds |-> NewTaskWorker]
  /\ monitor' = [w \in WorkerIds |-> "Idle"]

\* Compare() returns status from the statement named by at; the observer
\* files what the call did.
CompareReturns(status, at, ctx, aggregate, fs, failed_check) ==
  /\ compare_pc' = "Returned"
  /\ compare_status' = status
  /\ context' = ctx
  /\ results' = aggregate
  /\ files' = fs
  /\ observed' = [observed EXCEPT !.failed_check = failed_check]
  /\ calls' = Append(calls,
                     [args |-> args, codec_version |-> codec_version,
                      status |-> status, returned_at |-> at,
                      results |-> aggregate,
                      assigned |-> observed.assigned,
                      recomputed |-> observed.recomputed,
                      failed_check |-> failed_check,
                      log_at_call |-> observed.log_at_call,
                      log_at_return |-> fs.log,
                      num_failures |-> ctx.num_failures,
                      num_completed_tasks_since_start |->
                        ctx.num_completed_tasks_since_start,
                      context_status |-> ctx.status])

\* Compare(), from its first statement to the call of pool.Run() in
\* ComputeDistortionInCompletedTasks() or to the reconciliation: PlanTasks(),
\* LoadTasks() and, when the distortions are to be discarded and there is a
\* log, its renaming and the first part of
\* ComputeDistortionInCompletedTasks().
ComparePlanAndLoad ==
  /\ compare_pc = "Compare"
  /\ LET plan == PlanTasks(args.image_paths, args.settings)
         loaded == LoadTasks(args.settings, args.completed_tasks_file_path,
                             files)
         renamed == [log |-> NoFile, backup |-> files.log]
         unique == UniqueEncodedPaths(loaded.value, 1, {}, << >>)
     IN IF plan.status # kOk
        THEN /\ CompareReturns(plan.status, "PlanTasks", context, NoResults,
                               files, "none")
             /\ UNCHANGED << args, codec_version, loaded_tasks, pool_vars >>
        ELSE IF loaded.status # kOk
        THEN /\ CompareReturns(loaded.status, "LoadTasks",
                               [context EXCEPT !.remaining_tasks = plan.value],
                               NoResults, files, "none")
             /\ UNCHANGED << args, codec_version, loaded_tasks, pool_vars >>
        ELSE IF args.settings.discard_distortion_values
                /\ Exists(args.completed_tasks_file_path, files)
        THEN IF unique.status # kOk
             THEN /\ CompareReturns(unique.status,
                                    "ComputeDistortionInCompletedTasks",
                                    [context EXCEPT
                                       !.remaining_tasks = plan.value,
                                       !.completed_tasks = loaded.value],
                                    NoResults, renamed, "none")
                  /\ UNCHANGED << args, codec_version, loaded_tasks,
                                  pool_vars >>
             ELSE /\ compare_pc' = "ComputeDistortionInCompletedTasks"
                  /\ files' = renamed
                  /\ loaded_tasks' = [context EXCEPT
                                        !.remaining_tasks = plan.value,
                                        !.completed_tasks = loaded.value]
                  /\ context' = RecomputeContext(unique.value)
                  /\ PoolStarts(1 + args.settings.num_extra_threads)
                  /\ UNCHANGED << args, compare_status, results,
                                  codec_version, observed, calls >>
        ELSE /\ compare_pc' = "RemoveCompletedTasksFromRemainingTasks"
             /\ context' = [context EXCEPT !.remaining_tasks = plan.value,
                                           !.completed_tasks = loaded.value]
             /\ UNCHANGED << args, files, compare_status, results,
                             codec_version, loaded_tasks, pool_vars, observed,
                             calls >>

\* ComputeDistortionInCompletedTasks() from the return of pool.Run(), and
\* the dump of the updated entries by Compare().
CompareRecomputed ==
  /\ compare_pc = "ComputeDistortionInCompletedTasks"
  /\ pool_pc = "Returned"
  /\ LET copied == CopyDistortions(context, loaded_tasks.completed_tasks)
     IN IF copied.status # kOk
        THEN /\ CompareReturns(copied.status,
                               "ComputeDistortionInCompletedTasks",
                               loaded_tasks, NoResults, files, "none")
             /\ loaded_tasks' = << >>
        ELSE /\ compare_pc' = "RemoveCompletedTasksFromRemainingTasks"
             /\ context' = [loaded_tasks EXCEPT
                              !.completed_tasks = copied.value]
             /\ files' = [files EXCEPT
                            !.log = File(SerializeAll(copied.value))]
             /\ loaded_tasks' = << >>
             /\ UNCHANGED << compare_status, results, observed, calls >>
  /\ UNCHANGED << args, codec_version, pool_vars >>

\* Compare() from RemoveCompletedTasksFromRemainingTasks() to the call of
\* pool.Run(): the reconciliation, ShuffleRemainingTasks(), the counters and
\* the opening of the log for appending.
CompareReconcile ==
  /\ compare_pc = "RemoveCompletedTasksFromRemainingTasks"
  /\ \E outcome \in RemoveCompletedTasksFromRemainingTasks(
                      context.completed_tasks, context.remaining_tasks) :
        LET reconciled == [context EXCEPT
                             !.completed_tasks = outcome.completed_tasks,
                             !.remaining_tasks = outcome.remaining_tasks]
        IN IF outcome.status # kOk
           THEN /\ CompareReturns(outcome.status,
                                  "RemoveCompletedTasksFromRemainingTasks",
                                  reconciled, NoResults, files,
                                  outcome.failed_check)
                /\ UNCHANGED pool_vars
           ELSE \E shuffled \in ShuffleRemainingTasks(
                                  args.settings, outcome.remaining_tasks) :
                   /\ context' =
                        [reconciled EXCEPT
                           !.remaining_tasks = shuffled,
                           !.num_tasks = Len(outcome.completed_tasks)
                                         + Len(shuffled),
                           !.completed_tasks_file_path =
                              args.completed_tasks_file_path]
                   /\ files' =
                        IF args.completed_tasks_file_path # EmptyString
                           /\ ~files.log.exists
                        THEN [files EXCEPT !.log = File(<< >>)]
                        ELSE files
                   /\ compare_pc' = "WorkerPool::Run"
                   /\ PoolStarts(1 + args.settings.num_extra_threads)
                   /\ UNCHANGED << compare_status, results, observed, calls >>
  /\ UNCHANGED << args, codec_version, loaded_tasks >>

\* Compare() from the return of pool.Run() to its own return: the status
\* rule, the aggregation and the JSON files.
CompareAggregate ==
  /\ compare_pc = "WorkerPool::Run"
  /\ pool_pc = "Returned"
  /\ LET aggregate == SplitByCodecSettingsAndAggregateByImageAndQuality(
                        context.completed_tasks)
     IN IF ReturnsStatusOfPool(context) /\ context.status # kOk
        THEN CompareReturns(context.status, "pool.Run", context, NoResults,
                            files, "none")
        ELSE IF aggregate.status # kOk
        THEN CompareReturns(aggregate.status,
                            "SplitByCodecSettingsAndAggregateByImageAndQuality",
                            context, NoResults, files, "none")
        ELSE IF args.results_folder_path # EmptyString
                /\ aggregate.value # << >>
        THEN \E json \in TasksToJson :
                CompareReturns(json,
                               IF json = kOk THEN "end" ELSE "TasksToJson",
                               context, aggregate.value, files, "none")
        ELSE CompareReturns(kOk, "end", context, aggregate.value, files,
                            "none")
  /\ UNCHANGED << args, codec_version, loaded_tasks, pool_vars >>

(***************************************************************************)
(* Spec: up to MaxCalls calls of Compare() on one file system.  The first  *)
(* call finds no log; each later call is made with the arguments of the    *)
(* call before or with one of them changed, by the same build of the       *)
(* codecs or by another.                                                   *)
(***************************************************************************)
\* An image whose path ends with a backslash.
ImageQ == ImageA \o << CharBackslash >>
\* "f/a.b" and "f/f".
LogPath == FolderF \o << CharSlash >> \o ImageA \o << CharDot >> \o ImageB
ResultsFolder == FolderF \o << CharSlash >> \o FolderF

ImagePathLists == { << ImageA >>, << ImageA, ImageB >>, << ImageQ >> }
CodecSettingLists == { << LossyWebp2 >>, << LosslessWebp >> }
FolderPaths == { EmptyString, FolderF }
CodecVersions == 0..MaxCodecVersion

SmallPlan(a) ==
  Len(PlanTasks(a.image_paths, a.settings).value) <= MaxPlannedTasks

\* The arguments of a call that logs its tasks.
LoggedArgs ==
  { a \in { CompareArgs(image_paths,
                        ComparisonSettings(codec_settings, folder,
                                           repetitions, threads, random,
                                           discard),
                        LogPath, results_folder) :
              image_paths \in ImagePathLists,
              codec_settings \in CodecSettingLists,
              folder \in FolderPaths,
              repetitions \in 0..MaxRepetitions,
              threads \in 0..MaxExtraThreads,
              random \in BOOLEAN,
              discard \in BOOLEAN,
              results_folder \in { EmptyString, ResultsFolder } } :
      SmallPlan(a) }

\* The arguments of the first call: without a log, more tasks than
\* kMaxNumFailures + 1, one worker; or with one, few tasks.
FirstArgs ==
  { a \in LoggedArgs : ~a.settings.random_order
                       /\ a.results_folder_path = EmptyString }
  \cup { ThresholdArgs }

\* The arguments of the call after one with arguments a: the same, or a
\* with one argument or one setting changed.
Differences(a, b) ==
  Cardinality({ f \in DOMAIN a.settings : a.settings[f] # b.settings[f] })
  + Cardinality({ f \in DOMAIN a \ { "settings" } : a[f] # b[f] })

NextArgs(a) == { b \in LoggedArgs : Differences(a, b) <= 1 }

Init ==
  /\ args \in FirstArgs
  /\ codec_version \in CodecVersions
  /\ files = [log |-> NoFile, backup |-> NoFile]
  /\ compare_pc = "Compare"
  /\ compare_status = "running"
  /\ results = NoResults
  /\ context = NewWorkerContext
  /\ loaded_tasks = << >>
  /\ num_workers = 0
  /\ pool_pc = "Returned"
  /\ pool_i = 0
  /\ mutex = Unlocked
  /\ pc = [w \in WorkerIds |-> "NotStarted"]
  /\ local = [w \in WorkerIds |-> NewTaskWorker]
  /\ monitor = [w \in WorkerIds |-> "Idle"]
  /\ observed = NewObserved
  /\ calls = << >>

\* Compare() is called again.  (A call without a log leaves nothing behind:
\* a call after it is a first call.)
CompareCall ==
  /\ compare_pc = "Returned"
  /\ Len(calls) < MaxCalls
  /\ args.completed_tasks_file_path # EmptyString
  /\ args' \in NextArgs(args)
  /\ codec_version' \in CodecVersions
  /\ args' # args => codec_version' = codec_version
  /\ compare_pc' = "Compare"
  /\ compare_status' = "running"
  /\ results' = NoResults
  /\ context' = NewWorkerContext
  /\ observed' = [NewObserved EXCEPT !.log_at_call = files.log]
  /\ UNCHANGED << files, loaded_tasks, pool_vars, calls >>

CompareStep ==
  \/ CompareCall
  \/ ComparePlanAndLoad
  \/ CompareRecomputed
  \/ CompareReconcile
  \/ CompareAggregate

Next == CompareStep \/ WorkerStep \/ PoolStep

Spec == Init /\ [][Next]_vars

(***************************************************************************)
(* Properties of Compare() (Spec).                                         *)
(***************************************************************************)
\* Compare() has returned; LastCall is what the observer filed for it.
CompareReturned == compare_pc = "Returned" /\ calls # << >>
LastCall == calls[Len(calls)]

\* The plan of a call and the entries it loaded from the log it found.
PlanOf(call) == PlanTasks(call.args.image_paths, call.args.settings)
LoadedBy(call) ==
  LoadTasks(call.args.settings, call.args.completed_tasks_file_path,
            [log |-> call.log_at_call, backup |-> NoFile])

\* The first of two calls completed every task it planned.
FirstRunCompletedAll ==
  /\ calls[1].status = kOk
  /\ calls[1].num_failures = 0
  /\ Len(calls[1].log_at_return.lines) = Len(PlanOf(calls[1]).value)

\* C4: when a first Compare() completed every planned task, a second call
\* with the same images, settings and log assigns no task to any worker,
\* leaves the log as it found it, returns kOk and aggregates to the result of
\* the first call.  (Stated for settings that do not ask to discard the
\* distortions of the log, which is a request to run tasks again.)
C4_IdempotentResumption ==
  (/\ compare_pc = "Returned"
   /\ Len(calls) = 2
   /\ calls[2].args = calls[1].args
   /\ ~calls[2].args.settings.discard_distortion_values
   /\ FirstRunCompletedAll)
  => /\ calls[2].assigned = 0
     /\ calls[2].recomputed = 0
     /\ calls[2].log_at_return = calls[2].log_at_call
     /\ calls[2].status = kOk
     /\ calls[2].results = calls[1].results

\* The TaskInputs of c form a sub-multiset of p.
SubMultiset(c, p) == \A x \in Range(c) : Count(x, c) <= Count(x, p)

\* The log a call found holds a task its plan does not contain, or more
\* copies of a task than the plan, or more entries than the plan.
Drift(call) ==
  /\ PlanOf(call).status = kOk
  /\ LoadedBy(call).status = kOk
  /\ ~SubMultiset(InputsOf(LoadedBy(call).value), PlanOf(call).value)

TooManyEntries(call) ==
  Len(LoadedBy(call).value) > Len(PlanOf(call).value)

\* The call recomputes the distortions of the entries of its log.
Recomputes(call) ==
  /\ call.args.settings.discard_distortion_values
  /\ call.log_at_call.exists

\* C5, as stated: if the log holds a task the plan does not contain, or more
\* entries than there are planned tasks, Compare() returns an error before any
\* task is assigned to a worker of any pool; in the reconciliation the count
\* check comes first.
C5_DriftBeforeAnyAssignment ==
  (CompareReturned /\ Drift(LastCall))
  => /\ LastCall.status # kOk
     /\ LastCall.assigned = 0
     /\ LastCall.recomputed = 0
     /\ (/\ LastCall.returned_at = "RemoveCompletedTasksFromRemainingTasks"
         /\ TooManyEntries(LastCall))
          => LastCall.failed_check = "count"

\* C5, amended: if the log holds a task the plan does not contain, or more
\* entries than there are planned tasks, Compare() returns an error and none
\* of its planned tasks is ever assigned.  Unless the distortions are being
\* recomputed, no worker is assigned anything and the log is left as found;
\* when they are, the recomputation pool runs first and the error is its own
\* or that of the reconciliation.  In the reconciliation the count check
\* comes before the merge: with more entries than planned tasks it fails and
\* leaves both vectors as they were passed, unsorted; otherwise it is the
\* merge that fails.
C5_ConfigurationDrift ==
  (CompareReturned /\ Drift(LastCall))
  => /\ LastCall.status # kOk
     /\ LastCall.assigned = 0
     /\ LastCall.results = NoResults
     /\ ~Recomputes(LastCall)
          => /\ LastCall.recomputed = 0
             /\ LastCall.log_at_return = LastCall.log_at_call
             /\ LastCall.returned_at = "RemoveCompletedTasksFromRemainingTasks"
     /\ LastCall.returned_at
          \in { "RemoveCompletedTasksFromRemainingTasks",
                "ComputeDistortionInCompletedTasks" }
     /\ LastCall.returned_at = "RemoveCompletedTasksFromRemainingTasks"
          => IF TooManyEntries(LastCall)
             THEN /\ LastCall.failed_check = "count"
                  /\ InputsOf(context.completed_tasks)
                       = InputsOf(LoadedBy(LastCall).value)
                  /\ context.remaining_tasks = PlanOf(LastCall).value
             ELSE LastCall.failed_check = "match"

\* A call whose log held more entries than it planned, in an order that is
\* not the sorted one, has returned the error of the count check.
C5_Witness ==
  /\ CompareReturned
  /\ Drift(LastCall)
  /\ TooManyEntries(LastCall)
  /\ LastCall.failed_check = "count"
  /\ LastCall.status = kUnknownError
  /\ context.completed_tasks
       \notin SortedOrderings(context.completed_tasks, TaskOutputComp)

\* The pool of Compare() has run and Compare() has returned.
ReturnedAfterPool ==
  /\ CompareReturned
  /\ LastCall.returned_at
       \in { "pool.Run", "SplitByCodecSettingsAndAggregateByImageAndQuality",
             "TasksToJson", "end" }

\* Between 1 and kMaxNumFailures tasks failed and at least one succeeded.
FewFailures(call) ==
  /\ call.num_failures \in 1..kMaxNumFailures
  /\ call.num_completed_tasks_since_start >= 1

\* Compare() returns the failure status exactly when more than
\* kMaxNumFailures tasks failed or when none succeeded and some failed.
StatusRule ==
  ReturnedAfterPool
  => /\ LastCall.returned_at = "pool.Run"
          <=> \/ LastCall.num_failures > kMaxNumFailures
              \/ /\ LastCall.num_completed_tasks_since_start = 0
                 /\ LastCall.num_failures > 0
     /\ LastCall.returned_at = "pool.Run"
          => /\ LastCall.status = LastCall.context_status
             /\ LastCall.status # kOk
     /\ (LastCall.context_status = kOk) <=> (LastCall.num_failures = 0)

\* While a pool runs, context.status is kOk until the first failure and is
\* not changed after it.
StatusKept ==
  (compare_pc' = compare_pc /\ context.status # kOk)
  => context'.status = context.status

StatusSetByFailure ==
  compare_pc \in { "WorkerPool::Run", "ComputeDistortionInCompletedTasks" }
  => ((context.status = kOk) <=> (context.num_failures = 0))

\* C7, as stated: with between 1 and 32 failures and at least one success,
\* Compare() goes on to aggregate and returns kOk.
C7_FewFailuresReturnOk ==
  (ReturnedAfterPool /\ FewFailures(LastCall))
  => /\ LastCall.returned_at = "end"
     /\ LastCall.status = kOk

\* C7, amended: after the pool run Compare() returns the recorded failure
\* status exactly when more than 32 tasks failed or when no task succeeded
\* and some failed; with between 1 and 32 failures and at least one success
\* it goes on to aggregate, and returns kOk unless the aggregation or the
\* writing of a JSON file fails; context.status is set by the first failure
\* and is never overwritten or reset to kOk.
C7_RunStatusRule ==
  /\ [](StatusRule)
  /\ [](StatusSetByFailure)
  /\ []((ReturnedAfterPool /\ FewFailures(LastCall))
          => /\ LastCall.returned_at # "pool.Run"
             /\ (LastCall.status = kOk) <=> (LastCall.returned_at = "end")
             /\ LastCall.context_status # kOk)
  /\ [][StatusKept]_vars

\* A call in which some tasks failed, no more than 32, and some succeeded
\* has aggregated and returned kOk, context.status holding the failure.
C7_Witness ==
  /\ ReturnedAfterPool
  /\ FewFailures(LastCall)
  /\ LastCall.num_failures >= 2
  /\ LastCall.status = kOk
  /\ LastCall.returned_at = "end"
  /\ context.status = kUnknownError
  /\ results # NoResults

\* The pool of Compare() is running and the tasks are logged.
InLoggedPoolRun ==
  compare_pc = "WorkerPool::Run"
  /\ context.completed_tasks_file_path # EmptyString

\* The completed tasks that were loaded, and those that this run added.
NumLoaded ==
  Len(context.completed_tasks) - context.num_completed_tasks_since_start
AddedSinceStart(v) == SubSeq(v, NumLoaded + 1, Len(v))

\* The workers that hold a task: assigned, and not yet through EndTask().
InFlight == { w \in WorkerIds : pc[w] \in { "DoTask", "LockAndEndTask", "EndTask" } }

\* In every state of the pool run (EndTask() is one step under the mutex).
LogMatchesCompletedTasks ==
  InLoggedPoolRun =>
    /\ files.log.exists
    /\ Len(files.log.lines) = Len(context.completed_tasks)
    /\ BagOf(files.log.lines) = BagOf(SerializeAll(context.completed_tasks))
    /\ AddedSinceStart(files.log.lines)
         = SerializeAll(AddedSinceStart(context.completed_tasks))
    /\ observed.assigned
         = context.num_completed_tasks_since_start + context.num_failures
           + Cardinality(InFlight)

\* A step of the pool run changes the log or completed_tasks only by an
\* EndTask() of a successful task, made by the owner of the mutex, which
\* appends the task to the one and its whole line to the other.
LogAppendedByEndTask ==
  InLoggedPoolRun /\ compare_pc' = compare_pc
  /\ (files' # files \/ context'.completed_tasks # context.completed_tasks)
    => \E w \in WorkerIds :
          /\ pc[w] = "EndTask" /\ pc'[w] = "LockAndAssignTask"
          /\ mutex = w
          /\ local[w].current_task_output.status = kOk
          /\ context'.completed_tasks
               = Append(context.completed_tasks,
                        local[w].current_task_output.value)
          /\ files' = [files EXCEPT !.log =
                         File(Append(files.log.lines,
                                     Serialize(local[w].current_task_output
                                                 .value)))]

\* EndTask() of a failed task adds no line and no completed task.
FailedTaskAddsNoLine ==
  \A w \in WorkerIds :
     InLoggedPoolRun /\ pc[w] = "EndTask" /\ pc'[w] # "EndTask"
     /\ local[w].current_task_output.status # kOk
       => /\ files' = files
          /\ context'.completed_tasks = context.completed_tasks
          /\ context'.num_failures = context.num_failures + 1

\* C12: during the pool run of Compare() the log holds one line per element
\* of completed_tasks, the serialization of that element: the loaded entries
\* and, after them and in EndTask() order, the tasks that succeeded in this
\* run; a line is appended only by the EndTask() that pushes the task to
\* completed_tasks, in the same step under the mutex, whole; a failed task
\* adds none; and every task assigned in this run is logged, or counted as
\* failed, or in flight in a worker.
C12_IncrementalLog ==
  /\ [](LogMatchesCompletedTasks)
  /\ [][LogAppendedByEndTask]_vars
  /\ [][FailedTaskAddsNoLine]_vars

\* A run of two workers that loaded a line has appended the line of a
\* second task, after the failure of a first call had left that task out of
\* the log.
C12_Witness ==
  /\ InLoggedPoolRun
  /\ num_workers >= 2
  /\ NumLoaded >= 1
  /\ context.num_completed_tasks_since_start >= 1
  /\ Len(calls) = 1 /\ calls[1].num_failures >= 1
  /\ Len(files.log.lines) = Len(context.completed_tasks)

\* The pool of Compare() is between the end of the reconciliation and the
\* return of pool.Run().
InPoolRun == compare_pc = "WorkerPool::Run"

\* The number of copies of task x the run holds: completed, remaining, or
\* popped by AssignTask() into a worker that has not ended it.
Held(x) ==
  Count(x, InputsOf(context.completed_tasks))
  + Count(x, context.remaining_tasks)
  + Cardinality({ w \in InFlight : local[w].current_task_input = x })

HeldTasks ==
  Range(InputsOf(context.completed_tasks)) \cup Range(context.remaining_tasks)
  \cup { local[w].current_task_input : w \in InFlight }

\* C13, as stated: in every state of the pool run the TaskInputs of
\* completed_tasks together with remaining_tasks are the planned tasks, as a
\* multiset.
C13_CompletedAndRemainingArePlan ==
  InPoolRun =>
    BagOf(InputsOf(context.completed_tasks) \o context.remaining_tasks)
      = BagOf(Planned)

\* C13, amended: in every state of the pool run the completed tasks, the
\* remaining tasks and the tasks in flight in the workers hold no task
\* outside the plan and no more copies of a task than planned; together with
\* the failed tasks they are as many as planned until the failure threshold
\* clears the queue, and they are exactly the planned tasks, as a multiset,
\* as long as no task has failed; so completed_tasks with remaining_tasks
\* are the plan whenever no task is in flight and none has failed, as when
\* the pool starts.
C13_TaskConservation ==
  InPoolRun =>
    /\ \A x \in HeldTasks : Held(x) <= Count(x, Planned)
    /\ ~ThresholdExceeded(context.num_failures) =>
          Len(context.completed_tasks) + Len(context.remaining_tasks)
          + Cardinality(InFlight) + context.num_failures = Len(Planned)
    /\ context.num_failures = 0 =>
          \A x \in Range(Planned) : Held(x) = Count(x, Planned)
    /\ context.num_failures = 0 /\ InFlight = {} =>
          BagOf(InputsOf(context.completed_tasks) \o context.remaining_tasks)
            = BagOf(Planned)

\* A run that loaded a completed task has the other planned task in flight
\* in a worker: it is neither completed nor remaining.
C13_Witness ==
  /\ InPoolRun
  /\ NumLoaded >= 1
  /\ InFlight # {}
  /\ context.num_failures = 0
  /\ Len(context.completed_tasks) + Len(context.remaining_tasks)
       < Len(Planned)

(***************************************************************************)
(* SpecReconcile: one call of RemoveCompletedTasksFromRemainingTasks() on  *)
(* a planned list and on a loaded list of up to MaxCompleted entries, in   *)
(* any order, of tasks of the plan or of another configuration.            *)
(* loaded_tasks keeps the two vectors as they were passed.                 *)
(***************************************************************************)
ReconcileArgs ==
  { CompareArgs(image_paths,
                ComparisonSettings(codec_settings, FolderF, repetitions, 0,
                                   FALSE, FALSE),
                LogPath, EmptyString) :
      image_paths \in { << ImageA >>, << ImageA, ImageB >>,
                        << ImageB, ImageA >> },
      codec_settings \in { << LossyWebp2 >>, << LossyWebp2, LosslessWebp >> },
      repetitions \in 0..MaxRepetitions }

\* The tasks a log may hold: those of the largest plan, and one encoded to
\* another folder.
LoggedInputs ==
  { TaskInput(codec_settings, image_path,
              GetEncodedFilePath(FolderF, image_path, codec_settings)) :
      codec_settings \in { LossyWebp2, LosslessWebp },
      image_path \in { ImageA, ImageB } }
  \cup { TaskInput(LossyWebp2, ImageA, EmptyString) }

LoggedLists ==
  UNION { [1..n -> { EncodeDecodeValue(input, 0) : input \in LoggedInputs }] :
          n \in 0..MaxCompleted }

InitReconcile ==
  /\ args \in ReconcileArgs
  /\ \E completed_tasks \in LoggedLists :
        context = [NewWorkerContext EXCEPT
                     !.remaining_tasks = Planned,
                     !.completed_tasks = completed_tasks]
  /\ loaded_tasks = context
  /\ codec_version = 0
  /\ files = [log |-> NoFile, backup |-> NoFile]
  /\ compare_pc = "RemoveCompletedTasksFromRemainingTasks"
  /\ compare_status = "running"
  /\ results = NoResults
  /\ num_workers = 0
  /\ pool_pc = "Returned"
  /\ pool_i = 0
  /\ mutex = Unlocked
  /\ pc = [w \in WorkerIds |-> "NotStarted"]
  /\ local = [w \in WorkerIds |-> NewTaskWorker]
  /\ monitor = [w \in WorkerIds |-> "Idle"]
  /\ observed = NewObserved
  /\ calls = << >>

\* RemoveCompletedTasksFromRemainingTasks(settings, path,
\*     context.completed_tasks, context.remaining_tasks) runs and returns.
Reconcile ==
  /\ compare_pc = "RemoveCompletedTasksFromRemainingTasks"
  /\ \E outcome \in RemoveCompletedTasksFromRemainingTasks(
                      context.completed_tasks, context.remaining_tasks) :
        /\ context' = [context EXCEPT
                         !.completed_tasks = outcome.completed_tasks,
                         !.remaining_tasks = outcome.remaining_tasks]
        /\ compare_status' = outcome.status
        /\ observed' = [observed EXCEPT !.failed_check = outcome.failed_check]
  /\ compare_pc' = "Returned"
  /\ UNCHANGED << args, files, results, codec_version, loaded_tasks,
                  pool_vars, calls >>

NextReconcile == Reconcile

SpecReconcile == InitReconcile /\ [][NextReconcile]_vars

\* r is, as a multiset, p minus c.
MultisetDifference(r, p, c) ==
  \A x \in Range(p) \cup Range(r) : Count(x, r) = Count(x, p) - Count(x, c)

\* C3: when the TaskInputs of the completed list C form a sub-multiset of the
\* planned list P, in any order and with repetitions,
\* RemoveCompletedTasksFromRemainingTasks() succeeds and leaves
\* remaining_tasks equal, as a multiset, to P minus C, with
\* |remaining| = |P| - |C|; the completed list keeps its entries.
C3_ReconciliationExact ==
  (/\ compare_pc = "Returned"
   /\ SubMultiset(InputsOf(loaded_tasks.completed_tasks),
                  loaded_tasks.remaining_tasks))
  => /\ compare_status = kOk
     /\ MultisetDifference(context.remaining_tasks,
                           loaded_tasks.remaining_tasks,
                           InputsOf(loaded_tasks.completed_tasks))
     /\ Len(context.remaining_tasks)
          = Len(loaded_tasks.remaining_tasks)
            - Len(loaded_tasks.completed_tasks)
     /\ BagOf(context.completed_tasks) = BagOf(loaded_tasks.completed_tasks)

\* A log given out of order, holding one of the two repetitions of a task and
\* a task of another codec, has been reconciled: the other repetition remains.
C3_Witness ==
  /\ compare_pc = "Returned"
  /\ compare_status = kOk
  /\ Len(loaded_tasks.completed_tasks) >= 2
  /\ loaded_tasks.completed_tasks # context.completed_tasks
  /\ \E i \in 1..Len(loaded_tasks.completed_tasks) :
        LET input == loaded_tasks.completed_tasks[i].task_input
        IN /\ Count(input, InputsOf(loaded_tasks.completed_tasks)) = 1
           /\ Count(input, loaded_tasks.remaining_tasks) = 2
           /\ Count(input, context.remaining_tasks) = 1

\* Task c has the codec settings and the image path of task p, and another
\* encoded path.
OnlyPathDiffers(c, p) ==
  /\ CodecSettingsEq(c.codec_settings, p.codec_settings)
  /\ c.image_path = p.image_path
  /\ c.encoded_path # p.encoded_path

\* The comparator of the sort ranks neither before the other.
Equivalent(a, b) == ~TaskInputComp(a, b) /\ ~TaskInputComp(b, a)

\* The entries of the log as passed whose encoded path is not that of the
\* planned task of the same codec settings and image.
MovedEntries ==
  { i \in 1..Len(loaded_tasks.completed_tasks) :
      \E j \in 1..Len(loaded_tasks.remaining_tasks) :
         OnlyPathDiffers(loaded_tasks.completed_tasks[i].task_input,
                         loaded_tasks.remaining_tasks[j]) }

\* C14: when the log holds an entry with the codec settings and image path
\* of a planned task and another encoded path,
\* RemoveCompletedTasksFromRemainingTasks() returns an error and removes no
\* planned task: the remaining tasks are still the whole plan, although the
\* comparator of the sort ranks the entry and the planned task as equivalent.
C14_EncodedPathIsIdentity ==
  compare_pc = "Returned" /\ MovedEntries # {}
    => /\ compare_status # kOk
       /\ observed.failed_check \in { "count", "match" }
       /\ BagOf(context.remaining_tasks) = BagOf(loaded_tasks.remaining_tasks)
       /\ \A i \in MovedEntries :
             \A j \in 1..Len(loaded_tasks.remaining_tasks) :
                LET c == loaded_tasks.completed_tasks[i].task_input
                    p == loaded_tasks.remaining_tasks[j]
                IN OnlyPathDiffers(c, p)
                     => Equivalent(c, p) /\ ~TaskInputEq(c, p)

\* The merge has failed on a log of two entries for a plan of two
\* repetitions of one task: one entry is the planned task, the other differs
\* from it by its encoded path only.
C14_Witness ==
  /\ compare_pc = "Returned"
  /\ compare_status = kUnknownError
  /\ observed.failed_check = "match"
  /\ Cardinality(MovedEntries) = 1
  /\ Len(loaded_tasks.completed_tasks) = 2
  /\ \E i \in 1..2 :
        loaded_tasks.completed_tasks[i].task_input
          \in Range(loaded_tasks.remaining_tasks)

(***************************************************************************)
(* SpecAggregate: one call of                                              *)
(* SplitByCodecSettingsAndAggregateByImageAndQuality() on up to MaxResults *)
(* results of one codec setting, in any order: repetitions of one task     *)
(* with the durations of each run, a result of another image, a result     *)
(* with another encoded size.                                              *)
(***************************************************************************)
\* The durations a run may measure, in the units of EncodeDecodeValue().
EncodingDurations == { 1000000, 2000000 }
DecodingDurations == { 3000000, 4000000 }
ColorConversionDurations == { 0, 5000000 }
EncodedSizes == { 100, 101 }

MeasuredResults ==
  { [EncodeDecodeValue(TaskInput(LossyWebp2, image_path, EmptyString), 0)
       EXCEPT !.encoded_size = encoded_size,
              !.encoding_duration = encoding_duration,
              !.decoding_duration = decoding_duration,
              !.decoding_color_conversion_duration =
                 decoding_color_conversion_duration] :
      image_path \in { ImageA, ImageB },
      encoded_size \in EncodedSizes,
      encoding_duration \in EncodingDurations,
      decoding_duration \in DecodingDurations,
      decoding_color_conversion_duration \in ColorConversionDurations }

InitAggregate ==
  /\ args = CompareArgs(<< ImageA, ImageB >>,
                        ComparisonSettings(<< LossyWebp2 >>, EmptyString,
                                           MaxResults - 1, 0, FALSE, FALSE),
                        EmptyString, EmptyString)
  /\ \E n \in 1..MaxResults :
        \E completed_tasks \in [1..n -> MeasuredResults] :
           context = [NewWorkerContext EXCEPT
                        !.completed_tasks = completed_tasks]
  /\ loaded_tasks = << >>
  /\ codec_version = 0
  /\ files = [log |-> NoFile, backup |-> NoFile]
  /\ compare_pc = "SplitByCodecSettingsAndAggregateByImageAndQuality"
  /\ compare_status = "running"
  /\ results = NoResults
  /\ num_workers = 0
  /\ pool_pc = "Returned"
  /\ pool_i = 0
  /\ mutex = Unlocked
  /\ pc = [w \in WorkerIds |-> "NotStarted"]
  /\ local = [w \in WorkerIds |-> NewTaskWorker]
  /\ monitor = [w \in WorkerIds |-> "Idle"]
  /\ observed = NewObserved
  /\ calls = << >>

\* ASSIGN_OR_RETURN(results,
\*     SplitByCodecSettingsAndAggregateByImageAndQuality(
\*         context.completed_tasks, settings.quiet));
Aggregate ==
  /\ compare_pc = "SplitByCodecSettingsAndAggregateByImageAndQuality"
  /\ LET aggregate == SplitByCodecSettingsAndAggregateByImageAndQuality(
                        context.completed_tasks)
     IN /\ compare_status' = aggregate.status
        /\ results' = aggregate.value
  /\ compare_pc' = "Returned"
  /\ UNCHANGED << args, files, codec_version, context, loaded_tasks,
                  pool_vars, observed, calls >>

NextAggregate == Aggregate

SpecAggregate == InitAggregate /\ [][NextAggregate]_vars

\* The fields of a result that are not durations.
NonTimingFields ==
  { "task_input", "image_width", "image_height", "num_frames",
    "encoded_size", "distortions" }

\* The results handed to the aggregator have one TaskInput and equal
\* non-timing fields.
IdenticalButDurations(given) ==
  \A i \in 1..Len(given) :
     \A f \in NonTimingFields : given[i][f] = given[1][f]

\* The fraction mean is the arithmetic mean of the values of given.
IsMeanOf(mean, given) == mean.num * Len(given) = SumSeq(given) * mean.den

\* C8: for N results with identical TaskInput whose non-timing fields are
\* equal, in any order, the aggregator succeeds with a single result whose
\* encoding, decoding and colour-conversion durations are each the
\* arithmetic mean of the N values and whose other fields are those of the
\* inputs.
C8_AveragingLaw ==
  LET given == context.completed_tasks
  IN (/\ compare_pc = "Returned"
      /\ loaded_tasks = << >>
      /\ calls = << >>
      /\ given # << >>
      /\ IdenticalButDurations(given))
     => /\ compare_status = kOk
        /\ Len(results) = 1
        /\ Len(results[1]) = 1
        /\ \A f \in NonTimingFields : results[1][1][f] = given[1][f]
        /\ IsMeanOf(results[1][1].encoding_duration,
                    [i \in 1..Len(given) |-> given[i].encoding_duration])
        /\ IsMeanOf(results[1][1].decoding_duration,
                    [i \in 1..Len(given) |-> given[i].decoding_duration])
        /\ IsMeanOf(results[1][1].decoding_color_conversion_duration,
                    [i \in 1..Len(given) |->
                       given[i].decoding_color_conversion_duration])
        /\ results[1][1].encoding_duration.den > 0
        /\ results[1][1].decoding_duration.den > 0
        /\ results[1][1].decoding_color_conversion_duration.den > 0

\* MaxResults repetitions whose durations differ have been averaged: the
\* mean of the encoding durations is none of the values measured.
C8_Witness ==
  LET given == context.completed_tasks
  IN /\ compare_pc = "Returned"
     /\ calls = << >>
     /\ loaded_tasks = << >>
     /\ compare_status = kOk
     /\ Len(given) = MaxResults
     /\ IdenticalButDurations(given)
     /\ given[1].encoding_duration > given[2].encoding_duration
     /\ given[1].decoding_duration < given[MaxResults].decoding_duration
     /\ Len(results) = 1
     /\ results[1][1].encoding_duration.den > 1

(***************************************************************************)
(* SpecPlan: one call of PlanTasks() (src/task.cc), as the first statement *)
(* of Compare() makes it, on lists of 0 to 2 images and of 0 to 2 codec    *)
(* settings in either order, an image given twice included, with or        *)
(* without an encoded folder, and 0 to MaxRepetitions repetitions or the   *)
(* largest count a uint32_t holds.                                         *)
(***************************************************************************)
PlanImageLists ==
  { << >>, << ImageA >>, << ImageA, ImageB >>, << ImageB, ImageA >>,
    << ImageA, ImageA >> }

PlanCodecSettingLists ==
  { << >>, << LossyWebp2 >>, << LosslessWebp >>,
    << LossyWebp2, LosslessWebp >>, << LosslessWebp, LossyWebp2 >> }

PlanRepetitions == 0..MaxRepetitions \cup { Uint32Max }

PlanArgs ==
  { CompareArgs(image_paths,
                ComparisonSettings(codec_settings, folder, repetitions, 0,
                                   FALSE, FALSE),
                EmptyString, EmptyString) :
      image_paths \in PlanImageLists,
      codec_settings \in PlanCodecSettingLists,
      folder \in FolderPaths,
      repetitions \in PlanRepetitions }

InitPlan ==
  /\ args \in PlanArgs
  /\ codec_version = 0
  /\ files = [log |-> NoFile, backup |-> NoFile]
  /\ compare_pc = "PlanTasks"
  /\ compare_status = "running"
  /\ results = NoResults
  /\ context = NewWorkerContext
  /\ loaded_tasks = << >>
  /\ num_workers = 0
  /\ pool_pc = "Returned"
  /\ pool_i = 0
  /\ mutex = Unlocked
  /\ pc = [w \in WorkerIds |-> "NotStarted"]
  /\ local = [w \in WorkerIds |-> NewTaskWorker]
  /\ monitor = [w \in WorkerIds |-> "Idle"]
  /\ observed = NewObserved
  /\ calls = << >>

\* ASSIGN_OR_RETURN(context.remaining_tasks, PlanTasks(image_paths, settings))
Plan ==
  /\ compare_pc = "PlanTasks"
  /\ LET plan == PlanTasks(args.image_paths, args.settings)
     IN /\ compare_status' = plan.status
        /\ context' = IF plan.status = kOk
                      THEN [context EXCEPT !.remaining_tasks = plan.value]
                      ELSE context
  /\ compare_pc' = "Returned"
  /\ UNCHANGED << args, files, results, codec_version, loaded_tasks,
                  pool_vars, observed, calls >>

NextPlan == Plan

SpecPlan == InitPlan /\ [][NextPlan]_vars

\* PlanTasks() has returned for non-empty lists.
Planned_NonEmpty ==
  /\ compare_pc = "Returned"
  /\ args.image_paths # << >>
  /\ args.settings.codec_settings # << >>

\* The task of codec setting c and image i of the arguments.
PlannedTask(c, i) ==
  TaskInput(args.settings.codec_settings[c], args.image_paths[i],
            GetEncodedFilePath(args.settings.encoded_folder_path,
                               args.image_paths[i],
                               args.settings.codec_settings[c]))

\* tasks holds copies tasks for each codec setting and image: codec settings
\* outermost, then images, both in the order given, then the copies, all
\* equal, the encoded path included.
CrossProduct(tasks, copies) ==
  LET num_images == Len(args.image_paths)
      num_codec_settings == Len(args.settings.codec_settings)
  IN /\ Len(tasks) = num_images * num_codec_settings * copies
     /\ \A c \in 1..num_codec_settings : \A i \in 1..num_images :
           \A k \in 1..copies :
              tasks[((c - 1) * num_images + (i - 1)) * copies + k]
                = PlannedTask(c, i)

\* C15: for non-empty lists of images and of codec settings and every
\* repetition count R >= 0, PlanTasks() succeeds with R + 1 consecutive equal
\* tasks for each codec setting and image, codec settings outermost, then
\* images, in the order given; in particular with at least one task for
\* each pair, since R + 1 >= 1.
C15_PlanIsCrossProduct ==
  Planned_NonEmpty =>
    /\ compare_status = kOk
    /\ Len(context.remaining_tasks)
         >= Len(args.image_paths) * Len(args.settings.codec_settings)
    /\ args.settings.num_repetitions # Uint32Max =>
          CrossProduct(context.remaining_tasks,
                       args.settings.num_repetitions + 1)

\* The same for the repetition counts below the largest uint32_t.
C15_PlanBelowUint32Max ==
  Planned_NonEmpty /\ args.settings.num_repetitions # Uint32Max
    => /\ compare_status = kOk
       /\ CrossProduct(context.remaining_tasks,
                       args.settings.num_repetitions + 1)

\* The plan of two codec settings and two images with the largest
\* repetition count has been made: PlanTasks() succeeded with no task.
C15_Witness ==
  /\ Planned_NonEmpty
  /\ Len(args.settings.codec_settings) = 2
  /\ args.image_paths = << ImageB, ImageA >>
  /\ args.settings.num_repetitions = Uint32Max
  /\ compare_status = kOk
  /\ context.remaining_tasks = << >>

\* Two codec settings and two images with MaxRepetitions repetitions have
\* been planned.
PlannedWithRepetitions ==
  /\ Planned_NonEmpty
  /\ Len(args.settings.codec_settings) = 2
  /\ args.image_paths = << ImageB, ImageA >>
  /\ args.settings.num_repetitions = MaxRepetitions
  /\ args.settings.encoded_folder_path # EmptyString
  /\ Len(context.remaining_tasks) = 4 * (MaxRepetitions + 1)

(***************************************************************************)
(* SpecAggregateVaried: one call of                                        *)
(* SplitByCodecSettingsAndAggregateByImageAndQuality() on up to MaxResults *)
(* results, in any order, each of which is one base result or differs from *)
(* it in one respect: the image, the quality, the group (codec or effort), *)
(* the encoded path, a dimension, the frame count, the encoded size, a     *)
(* distortion (by 0.0006, by 0.0012, or none), or a duration.              *)
(***************************************************************************)
BaseResult == EncodeDecodeValue(TaskInput(LossyWebp2, ImageA, EmptyString), 0)

\* 0.0006 in distortion units: below the tolerance of SameDistortion(),
\* twice it is above.
SmallDistortionStep == (6 * DistortionScale) \div 10000

VariedResults ==
  { BaseResult,
    [BaseResult EXCEPT !.task_input.image_path = ImageB],
    [BaseResult EXCEPT !.task_input.codec_settings.quality = 50],
    [BaseResult EXCEPT !.task_input.codec_settings.effort = 4],
    [BaseResult EXCEPT !.task_input.codec_settings.codec = kWebp],
    [BaseResult EXCEPT !.task_input.encoded_path =
       GetEncodedFilePath(FolderF, ImageA, LossyWebp2)],
    [BaseResult EXCEPT !.image_width = @ + 1],
    [BaseResult EXCEPT !.image_height = @ + 1],
    [BaseResult EXCEPT !.num_frames = @ + 1],
    [BaseResult EXCEPT !.encoded_size = @ + 1],
    [BaseResult EXCEPT !.distortions[1] = @ + SmallDistortionStep],
    [BaseResult EXCEPT !.distortions[1] = @ + 2 * SmallDistortionStep],
    [BaseResult EXCEPT !.distortions[kNumDistortionMetrics] = NoDistortion],
    [BaseResult EXCEPT !.encoding_duration = @ + 1000000] }

InitAggregateVaried ==
  /\ args = CompareArgs(<< ImageA, ImageB >>,
                        ComparisonSettings(<< LossyWebp2 >>, EmptyString,
                                           MaxResults - 1, 0, FALSE, FALSE),
                        EmptyString, EmptyString)
  /\ \E n \in 1..MaxResults :
        \E completed_tasks \in [1..n -> VariedResults] :
           context = [NewWorkerContext EXCEPT
                        !.completed_tasks = completed_tasks]
  /\ loaded_tasks = << >>
  /\ codec_version = 0
  /\ files = [log |-> NoFile, backup |-> NoFile]
  /\ compare_pc = "SplitByCodecSettingsAndAggregateByImageAndQuality"
  /\ compare_status = "running"
  /\ results = NoResults
  /\ num_workers = 0
  /\ pool_pc = "Returned"
  /\ pool_i = 0
  /\ mutex = Unlocked
  /\ pc = [w \in WorkerIds |-> "NotStarted"]
  /\ local = [w \in WorkerIds |-> NewTaskWorker]
  /\ monitor = [w \in WorkerIds |-> "Idle"]
  /\ observed = NewObserved
  /\ calls = << >>

SpecAggregateVaried == InitAggregateVaried /\ [][NextAggregate]_vars

\* The aggregator has returned; given is what it was called on.
Aggregated == compare_pc = "Returned"
Given == context.completed_tasks

\* Results a and b belong to the same (codec, subsampling, effort) group and
\* have the same image path and quality.
SameImageAndQuality(a, b) ==
  /\ GroupOf(a) = GroupOf(b)
  /\ a.task_input.image_path = b.task_input.image_path
  /\ a.task_input.codec_settings.quality
       = b.task_input.codec_settings.quality

\* a and b differ in a field that is compared exactly.
DifferExactly(a, b) ==
  \/ a.task_input.encoded_path # b.task_input.encoded_path
  \/ a.image_width # b.image_width
  \/ a.image_height # b.image_height
  \/ a.num_frames # b.num_frames
  \/ a.encoded_size # b.encoded_size

\* A distortion of a and b differs by 0.001 or more, or exactly one of the
\* two is at or above the sentinel.
DifferInDistortion(a, b) ==
  \E m \in 1..kNumDistortionMetrics :
     LET x == a.distortions[m]
         y == b.distortions[m]
     IN IF x >= NoDistortion \/ y >= NoDistortion
        THEN (x >= NoDistortion) # (y >= NoDistortion)
        ELSE Abs(x - y) >= SameDistortionTolerance

\* C16: when two of the results have the same group, image path and quality
\* and differ in encoded path, width, height, frame count or encoded size, or
\* in a distortion by 0.001 or more (or by the sentinel), the aggregator
\* returns an error and no aggregate.
C16_DivergentResultsRejected ==
  (/\ Aggregated
   /\ \E i, j \in 1..Len(Given) :
         /\ SameImageAndQuality(Given[i], Given[j])
         /\ DifferExactly(Given[i], Given[j])
              \/ DifferInDistortion(Given[i], Given[j]))
  => compare_status # kOk /\ results = NoResults

\* The part of C16 on the fields compared exactly, and on the distortions
\* of a result and of the first result given with its image path and quality.
C16_ExactFieldsRejected ==
  (/\ Aggregated
   /\ \E i, j \in 1..Len(Given) :
         /\ SameImageAndQuality(Given[i], Given[j])
         /\ \/ DifferExactly(Given[i], Given[j])
            \/ /\ DifferInDistortion(Given[i], Given[j])
               /\ \A k \in 1..(i - 1) :
                     ~SameImageAndQuality(Given[k], Given[i]))
  => compare_status # kOk /\ results = NoResults

\* Three repetitions have been aggregated without error although the
\* distortions of two of them differ by 0.0012: the first one given is
\* within 0.0006 of both.
C16_Witness ==
  /\ Aggregated
  /\ compare_status = kOk
  /\ Len(Given) = 3
  /\ \A i \in 1..3 : SameImageAndQuality(Given[i], BaseResult)
  /\ DifferInDistortion(Given[2], Given[3])
  /\ Len(results) = 1 /\ Len(results[1]) = 1

\* The (codec, subsampling, effort) triples and, for a triple, the (image
\* path, quality) pairs of the results given.
TriplesGiven == { GroupOf(Given[i]) : i \in 1..Len(Given) }
PairsGiven(triple) ==
  { ImageAndQuality(Given[i]) :
      i \in { k \in 1..Len(Given) : GroupOf(Given[k]) = triple } }

\* Triple a is before triple b: by codec, then subsampling, then effort.
TripleBefore(a, b) ==
  \/ a.codec < b.codec
  \/ a.codec = b.codec /\ a.chroma_subsampling < b.chroma_subsampling
  \/ a.codec = b.codec /\ a.chroma_subsampling = b.chroma_subsampling
     /\ a.effort < b.effort

\* Pair a is before pair b: by image path, then quality.
PairBefore(a, b) ==
  StringLess(a[1], b[1]) \/ (a[1] = b[1] /\ a[2] < b[2])

\* The entries of the output that result r has gone into.
EntriesOf(r) ==
  { ge \in { << g, e >> : g \in 1..Len(results), e \in 1..MaxResults } :
      /\ ge[2] <= Len(results[ge[1]])
      /\ results[ge[1]][ge[2]].task_input = r.task_input }

\* C17: when the aggregator succeeds it returns one group for each distinct
\* (codec, subsampling, effort) of the input, the groups in ascending order
\* of the triple; each group holds one entry for each distinct (image path,
\* quality) of its triple, in ascending order of image path and then
\* quality, so that results of different qualities are separate entries of
\* one group; and each input result has gone into exactly one entry.
C17_GroupingAndOrder ==
  Aggregated /\ compare_status = kOk =>
    /\ Len(results) = Cardinality(TriplesGiven)
    /\ \A g \in 1..Len(results) :
          /\ results[g] # << >>
          /\ GroupOf(results[g][1]) \in TriplesGiven
          /\ \A e \in 1..Len(results[g]) :
                GroupOf(results[g][e]) = GroupOf(results[g][1])
          /\ Len(results[g])
               = Cardinality(PairsGiven(GroupOf(results[g][1])))
          /\ \A e \in 1..Len(results[g]) :
                ImageAndQuality(results[g][e])
                  \in PairsGiven(GroupOf(results[g][1]))
          /\ \A e, f \in 1..Len(results[g]) :
                e < f => PairBefore(ImageAndQuality(results[g][e]),
                                    ImageAndQuality(results[g][f]))
    /\ \A g, h \in 1..Len(results) :
          g < h => TripleBefore(GroupOf(results[g][1]), GroupOf(results[h][1]))
    /\ \A i \in 1..Len(Given) : Cardinality(EntriesOf(Given[i])) = 1

\* Three results given in descending order have been aggregated into two
\* groups, the first with two entries of one image and different qualities.
C17_Witness ==
  /\ Aggregated
  /\ compare_status = kOk
  /\ Len(Given) = 3
  /\ TripleBefore(GroupOf(Given[3]), GroupOf(Given[1]))
  /\ Len(results) = 2
  /\ Len(results[2]) = 2
  /\ results[2][1].task_input.image_path = results[2][2].task_input.image_path
  /\ results[2][2] = Averaged([task_output |-> Given[1], count |-> 1])

\* What the aggregator returns when it is given the results in order p.
OutcomeOf(p) == SplitByCodecSettingsAndAggregateByImageAndQuality(p)

\* C18: for every permutation of the results given the aggregator returns
\* the same status and, on success, the same groups and entries.
C18_OrderIndependent ==
  Aggregated =>
    \A p \in Orderings(Given) :
       /\ OutcomeOf(p).status = compare_status
       /\ compare_status = kOk => OutcomeOf(p).value = results

\* Results of the same group, image path and quality have distortions that
\* are equal or differ by the tolerance or more.
NoDistortionWithinTolerance ==
  \A i, j \in 1..Len(Given) :
     SameImageAndQuality(Given[i], Given[j])
       => \/ Given[i].distortions = Given[j].distortions
          \/ DifferInDistortion(Given[i], Given[j])

\* The same when no two distortions differ by less than the tolerance.
C18_OrderIndependentOfExactResults ==
  Aggregated /\ NoDistortionWithinTolerance =>
    \A p \in Orderings(Given) :
       /\ OutcomeOf(p).status = compare_status
       /\ compare_status = kOk => OutcomeOf(p).value = results

\* Two repetitions whose distortions differ by 0.0006 have been aggregated:
\* the entry has the distortions of the first one given.
C18_Witness ==
  /\ Aggregated
  /\ compare_status = kOk
  /\ Len(Given) = 2
  /\ SameImageAndQuality(Given[1], Given[2])
  /\ Given[1].distortions # Given[2].distortions
  /\ results[1][1].distortions = Given[1].distortions
  /\ OutcomeOf(<< Given[2], Given[1] >>).value[1][1].distortions
       = Given[2].distortions

(***************************************************************************)
(* SpecOrder: one call of Compare() that plans up to 2 * MaxPlannedTasks   *)
(* tasks, with the images and the codec settings                           *)
(* given in either order, 0 to MaxRepetitions repetitions, 1 or            *)
(* 1 + MaxExtraThreads workers, in the order of the arguments or, for a    *)
(* plan of at most MaxPlannedTasks tasks, at random, on a log that holds   *)
(* nothing or one of the planned tasks.                                    *)
(***************************************************************************)
OrderArgs ==
  { a \in { CompareArgs(image_paths,
                        ComparisonSettings(codec_settings, EmptyString,
                                           repetitions, threads, random,
                                           FALSE),
                        LogPath, EmptyString) :
              image_paths \in { << ImageA, ImageB >>, << ImageB, ImageA >> },
              codec_settings \in { << LossyWebp2 >>,
                                   << LosslessWebp, LossyWebp2 >>,
                                   << LossyWebp2, LosslessWebp >> },
              repetitions \in 0..MaxRepetitions,
              threads \in 0..MaxExtraThreads,
              random \in BOOLEAN } :
      /\ a.settings.random_order => SmallPlan(a)
      /\ Len(PlanTasks(a.image_paths, a.settings).value)
           <= 2 * MaxPlannedTasks }

\* The logs a call may find: none, or the line of one planned task.
LogsOf(plan) ==
  { NoFile }
  \cup { File(<< Serialize(EncodeDecodeValue(plan[i], 0)) >>) :
           i \in 1..Len(plan) }

InitOrder ==
  /\ args \in OrderArgs
  /\ codec_version = 0
  /\ \E log \in LogsOf(Planned) : files = [log |-> log, backup |-> NoFile]
  /\ compare_pc = "Compare"
  /\ compare_status = "running"
  /\ results = NoResults
  /\ context = NewWorkerContext
  /\ loaded_tasks = << >>
  /\ num_workers = 0
  /\ pool_pc = "Returned"
  /\ pool_i = 0
  /\ mutex = Unlocked
  /\ pc = [w \in WorkerIds |-> "NotStarted"]
  /\ local = [w \in WorkerIds |-> NewTaskWorker]
  /\ monitor = [w \in WorkerIds |-> "Idle"]
  /\ observed = [NewObserved EXCEPT !.log_at_call = files.log]
  /\ calls = << >>

NextOrder ==
  \/ ComparePlanAndLoad
  \/ CompareReconcile
  \/ CompareAggregate
  \/ WorkerStep
  \/ PoolStep

SpecOrder == InitOrder /\ [][NextOrder]_vars

\* plan without one occurrence of each task of done, in the order of plan.
RECURSIVE Without(_, _)
Without(plan, done) ==
  IF done = << >> THEN plan
  ELSE Without(RemoveOne(Head(done), plan), Tail(done))

\* The planned tasks that the log did not hold, in the planner's order.
NotYetCompleted ==
  Without(Planned,
          InputsOf(SubSeq(context.completed_tasks, 1, NumLoaded)))

\* The tasks executed so far in this run: ended, with or without success.
Executed == context.num_completed_tasks_since_start + context.num_failures

\* Worker w is handed its task by this step.
Assigns(w) == pc[w] = "AssignTask" /\ pc'[w] = "DoTask"

\* The i-th task assigned is the i-th task not yet completed of the plan.
AssignedInPlannerOrder ==
  \A w \in WorkerIds :
     InPoolRun /\ ~args.settings.random_order /\ Assigns(w)
       => /\ observed.assigned < Len(NotYetCompleted)
          /\ local'[w].current_task_input
               = NotYetCompleted[observed.assigned + 1]

\* With one worker, the task in DoTask() is the next one of the plan.
ExecutedInPlannerOrder ==
  (/\ InPoolRun /\ ~args.settings.random_order
   /\ num_workers = 1 /\ pc[0] = "DoTask")
  => /\ Executed < Len(NotYetCompleted)
     /\ local[0].current_task_input = NotYetCompleted[Executed + 1]

\* C19: when random_order is false the tasks are assigned in the order of
\* PlanTasks(): the codec settings in the order given, then the images in
\* the order given, then the repetitions; with one worker the i-th task
\* executed is the i-th task of the plan that the log did not hold.
C19_PlannerOrder ==
  /\ [][AssignedInPlannerOrder]_vars
  /\ [](ExecutedInPlannerOrder)

\* The order the sort of RemoveCompletedTasksFromRemainingTasks() leaves:
\* a is not after b.
NotAfter(a, b) == ~TaskInputComp(b, a)

\* What the code does: the tasks are assigned in the order of TaskInputComp
\* (codec, subsampling, effort, quality, image path), whatever the order of
\* the arguments.
C19_ComparatorOrder ==
  [][\A w \in WorkerIds :
       InPoolRun /\ ~args.settings.random_order /\ Assigns(w)
         => \A i \in 1..Len(context.remaining_tasks) :
               /\ NotAfter(local'[w].current_task_input,
                           context.remaining_tasks[i])
               /\ i > 1 => NotAfter(context.remaining_tasks[i],
                                    context.remaining_tasks[i - 1])]_vars

\* The only worker of a deterministic run on images given as b, a executes
\* the task of image a first.
C19_Witness ==
  /\ InPoolRun
  /\ ~args.settings.random_order
  /\ num_workers = 1
  /\ pc[0] = "DoTask"
  /\ Executed = 0 /\ NumLoaded = 0
  /\ args.image_paths = << ImageB, ImageA >>
  /\ Len(args.settings.codec_settings) = 1
  /\ local[0].current_task_input.image_path = ImageA
  /\ Planned[1].image_path = ImageB

(***************************************************************************)
(* SpecManyFailures: one call of Compare() on more tasks than              *)
(* kMaxNumFailures + 1, each of which may fail, with 1 to                  *)
(* MaxThresholdWorkers workers, in the order of the arguments or at        *)
(* random, and a folder for the results.                                   *)
(***************************************************************************)
ManyFailuresArgs ==
  { CompareArgs(<< ImageA >>,
                ComparisonSettings(<< LossyWebp2 >>, EmptyString,
                                   kMaxNumFailures + ExtraThresholdTasks,
                                   threads, random, FALSE),
                EmptyString, ResultsFolder) :
      threads \in 0..(MaxThresholdWorkers - 1), random \in BOOLEAN }

InitManyFailures ==
  /\ args \in ManyFailuresArgs
  /\ codec_version = 0
  /\ files = [log |-> NoFile, backup |-> NoFile]
  /\ compare_pc = "Compare"
  /\ compare_status = "running"
  /\ results = NoResults
  /\ context = NewWorkerContext
  /\ loaded_tasks = << >>
  /\ num_workers = 0
  /\ pool_pc = "Returned"
  /\ pool_i = 0
  /\ mutex = Unlocked
  /\ pc = [w \in WorkerIds |-> "NotStarted"]
  /\ local = [w \in WorkerIds |-> NewTaskWorker]
  /\ monitor = [w \in WorkerIds |-> "Idle"]
  /\ observed = NewObserved
  /\ calls = << >>

SpecManyFailures == InitManyFailures /\ [][NextOrder]_vars

\* More than kMaxNumFailures tasks have failed in this run.
ManyFailed == context.num_failures > kMaxNumFailures

\* C20: once more than 32 tasks have failed the queue is empty, for every
\* order of the tasks and interleaving of the workers, and when Compare()
\* returns after that it returns the status of the first failure, not kOk,
\* from the status rule: nothing is aggregated and no result is written.
C20_ManyFailuresFail ==
  /\ InPoolRun /\ ManyFailed
       => context.remaining_tasks = << >> /\ context.status # kOk
  /\ CompareReturned /\ ManyFailed
       => /\ compare_status = kUnknownError
          /\ compare_status = context.status
          /\ LastCall.returned_at = "pool.Run"
          /\ results = NoResults
          /\ LastCall.results = NoResults
          /\ context.remaining_tasks = << >>

\* Compare() has returned from a run of two workers in which 33 tasks failed
\* and one succeeded.
C20_Witness ==
  /\ CompareReturned
  /\ ManyFailed
  /\ num_workers = 2
  /\ context.num_completed_tasks_since_start >= 1
  /\ compare_status = kUnknownError

(***************************************************************************)
(* The count of failures of a pool run (on SpecThreshold).                 *)
(***************************************************************************)
\* C21 as stated: the count of failures never exceeds kMaxNumFailures + 1.
C21_AtMost33Failures ==
  context.num_failures <= kMaxNumFailures + 1

\* A failure is recorded by the EndTask() of a task that AssignTask() had
\* handed out earlier.
FailureIsOfTaskInFlight ==
  \A w \in WorkerIds :
     WorkerEndTask(w) /\ context'.num_failures # context.num_failures =>
       /\ w \in InFlight
       /\ context'.num_failures = context.num_failures + 1
       /\ observed'.assigned = observed.assigned

\* C21: no task is assigned once the count of failures exceeds
\* kMaxNumFailures, so the failures recorded after that are those of the
\* tasks the other workers were executing: the count and the tasks in
\* flight together never exceed kMaxNumFailures plus the number of
\* workers, and the count of a pool of one worker never exceeds
\* kMaxNumFailures + 1.
C21_FailuresBoundedByWorkers ==
  /\ [](context.num_failures > kMaxNumFailures
          => context.num_failures + Cardinality(InFlight)
               <= kMaxNumFailures + num_workers)
  /\ [](num_workers = 1 => context.num_failures <= kMaxNumFailures + 1)
  /\ [](context.num_failures <= kMaxNumFailures + num_workers)
  /\ [][FailureIsOfTaskInFlight /\ NoTaskAfterDrain]_vars

\* The pool of two workers has returned with 34 failures: the 34th is that of
\* the task one worker was executing when the other recorded the 33rd.
C21_Witness ==
  /\ pool_pc = "Returned"
  /\ num_workers = 2
  /\ context.num_failures = kMaxNumFailures + 2
  /\ context.remaining_tasks = << >>

(***************************************************************************)
(* SpecLogLine: one result is written to the log as EndTask() writes it    *)
(* and read back as LoadTasks() reads it.  The image path and the encoded  *)
(* path are any strings of up to MaxPathLen characters among a letter, a   *)
(* comma, a space, a double quote and a backslash.                         *)
(***************************************************************************)
PathChars == { 97, CharComma, CharSpace, CharQuote, CharBackslash }

PathStrings == UNION { [1..n -> PathChars] : n \in 0..MaxPathLen }

\* The results a task with such paths may have.
LineResults ==
  { TaskOutput(TaskInput(CodecSettings(kWebp2, k420, 3, quality),
                         image_path, encoded_path),
               8, 9, 1, 100, 1234566, 2000000, 0,
               [m \in 1..kNumDistortionMetrics |->
                  IF quality = kQualityLossless THEN NoDistortion
                  ELSE 30 * DistortionScale + m]) :
      quality \in { 75, kQualityLossless },
      image_path \in PathStrings, encoded_path \in PathStrings }

InitLogLine ==
  /\ \E discard \in BOOLEAN :
        args = CompareArgs(<< ImageA >>,
                           ComparisonSettings(<< LossyWebp2 >>, EmptyString,
                                              0, 0, FALSE, discard),
                           LogPath, EmptyString)
  /\ \E result \in LineResults :
        local = [w \in WorkerIds |->
                   IF w = 0
                   THEN [NewTaskWorker EXCEPT
                           !.current_task_input = result.task_input,
                           !.current_task_output =
                              [status |-> kOk, value |-> result]]
                   ELSE NewTaskWorker]
  /\ codec_version = 0
  /\ files = [log |-> File(<< >>), backup |-> NoFile]
  /\ compare_pc = "TaskOutput::Serialize"
  /\ compare_status = "running"
  /\ results = NoResults
  /\ context = [NewWorkerContext EXCEPT !.completed_tasks_file_path = LogPath]
  /\ loaded_tasks = << >>
  /\ num_workers = 0
  /\ pool_pc = "Returned"
  /\ pool_i = 0
  /\ mutex = Unlocked
  /\ pc = [w \in WorkerIds |-> "NotStarted"]
  /\ monitor = [w \in WorkerIds |-> "Idle"]
  /\ observed = NewObserved
  /\ calls = << >>

\* serialized_current_task_output_ = current_task_output_.value.Serialize();
\* context.completed_tasks_file << serialized_current_task_output_ << std::endl;
WriteLine ==
  /\ compare_pc = "TaskOutput::Serialize"
  /\ files' = [files EXCEPT
                 !.log = File(<< Serialize(local[0].current_task_output.value) >>)]
  /\ compare_pc' = "LoadTasks"
  /\ UNCHANGED << args, compare_status, results, codec_version, context,
                  loaded_tasks, pool_vars, observed, calls >>

\* ASSIGN_OR_RETURN(context.completed_tasks,
\*                  LoadTasks(settings, completed_tasks_file_path));
ReadLines ==
  /\ compare_pc = "LoadTasks"
  /\ LET loaded == LoadTasks(args.settings, args.completed_tasks_file_path,
                             files)
     IN /\ compare_status' = loaded.status
        /\ context' = IF loaded.status = kOk
                      THEN [context EXCEPT !.completed_tasks = loaded.value]
                      ELSE context
  /\ compare_pc' = "Returned"
  /\ UNCHANGED << args, files, results, codec_version, loaded_tasks,
                  pool_vars, observed, calls >>

NextLogLine == WriteLine \/ ReadLines

SpecLogLine == InitLogLine /\ [][NextLogLine]_vars

\* The result that was written, and whether its line has been read back.
Written == local[0].current_task_output.value
ReadBack == compare_pc = "Returned" /\ files.log.lines # << >>

\* The line read back gave one entry with the TaskInput that was written.
RoundTrip ==
  /\ compare_status = kOk
  /\ Len(context.completed_tasks) = 1
  /\ TaskInputEq(context.completed_tasks[1].task_input, Written.task_input)

\* C22: for every image path and encoded path, among them paths with
\* commas, spaces, double quotes and backslashes, the line Serialize() writes
\* is read back by Unserialize() without error, with a TaskInput equal to
\* the one written.
C22_LogLineRoundTrip ==
  ReadBack /\ ~args.settings.discard_distortion_values => RoundTrip

HasBackslash(str) == \E i \in 1..Len(str) : str[i] = CharBackslash

\* The same for the paths without a backslash, in both parse modes.
C22_RoundTripWithoutBackslash ==
  /\ ReadBack
  /\ ~HasBackslash(Written.task_input.image_path)
  /\ ~HasBackslash(Written.task_input.encoded_path)
  => RoundTrip

\* The line of an image path that ends with a backslash has been read back
\* with an error; the encoded path has a comma, a space and a double quote
\* only.
C22_Witness ==
  /\ ReadBack
  /\ ~args.settings.discard_distortion_values
  /\ Written.task_input.image_path = << 97, CharBackslash >>
  /\ Written.task_input.encoded_path = << CharComma, CharQuote >>
  /\ compare_status # kOk

\* Paths with a comma, a space and a double quote have been read back.
RoundTripOfInconvenientPaths ==
  /\ ReadBack
  /\ Written.task_input.image_path = << CharComma, CharQuote >>
  /\ Written.task_input.encoded_path = << CharQuote, CharSpace >>
  /\ RoundTrip

(***************************************************************************)
(* SpecParse: one call of Compare() on a log of one or two lines, each the *)
(* line of a planned task or of another image, whole or cut after some of  *)
(* its fields, in the normal and in the recompute mode.                    *)
(***************************************************************************)
ParseArgs ==
  { CompareArgs(<< ImageA >>,
                ComparisonSettings(codec_settings, FolderF, 1, threads,
                                   FALSE, discard),
                LogPath, EmptyString) :
      codec_settings \in { << LossyWebp2 >>, << LosslessWebp >> },
      threads \in 0..MaxExtraThreads,
      discard \in BOOLEAN }

\* The fields of the line of a task: the 13 fields Serialize() always writes
\* and 7 distortion values, written by Serialize() or added to its line.
FieldsOf(input) ==
  LET tokens == Split(Serialize(EncodeDecodeValue(input, 0)), CharComma)
  IN IF Len(tokens) = kNumNonDistortionTokens
     THEN tokens \o [m \in 1..kNumDistortionMetrics |->
                       PrintFloat(NoDistortion)]
     ELSE tokens

\* The numbers of fields a line of the log is cut to.
FieldCounts ==
  { kNumNonDistortionTokens - 1, kNumNonDistortionTokens,
    kNumNonDistortionTokens + kNumDistortionMetrics - 1,
    kNumNonDistortionTokens + kNumDistortionMetrics }

\* The lines a log may hold for the call of arguments a.
LinesOf(a) ==
  LET plan == PlanTasks(a.image_paths, a.settings).value
      other == [plan[1] EXCEPT
                  !.image_path = ImageB,
                  !.encoded_path =
                     GetEncodedFilePath(a.settings.encoded_folder_path,
                                        ImageB, plan[1].codec_settings)]
  IN { Join(SubSeq(FieldsOf(plan[1]), 1, n)) : n \in FieldCounts }
     \cup { Serialize(EncodeDecodeValue(other, 0)) }

InitParse ==
  /\ args \in ParseArgs
  /\ codec_version = 0
  /\ \E n \in 1..2 : \E lines \in [1..n -> LinesOf(args)] :
        files = [log |-> File(lines), backup |-> NoFile]
  /\ compare_pc = "Compare"
  /\ compare_status = "running"
  /\ results = NoResults
  /\ context = NewWorkerContext
  /\ loaded_tasks = << >>
  /\ num_workers = 0
  /\ pool_pc = "Returned"
  /\ pool_i = 0
  /\ mutex = Unlocked
  /\ pc = [w \in WorkerIds |-> "NotStarted"]
  /\ local = [w \in WorkerIds |-> NewTaskWorker]
  /\ monitor = [w \in WorkerIds |-> "Idle"]
  /\ observed = [NewObserved EXCEPT !.log_at_call = files.log]
  /\ calls = << >>

NextParse ==
  \/ ComparePlanAndLoad
  \/ CompareRecomputed
  \/ CompareReconcile
  \/ CompareAggregate
  \/ WorkerStep
  \/ PoolStep

SpecParse == InitParse /\ [][NextParse]_vars

\* The number of fields of a line, and whether its quality is lossless.
NumFields(line) == Len(Split(line, CharComma))
IsLosslessLine(line) ==
  /\ NumFields(line) >= 4
  /\ Split(line, CharComma)[4] = PrintInt(kQualityLossless)

\* A line with fewer fields than its quality asks for.
TooFewFields(line) ==
  \/ NumFields(line) < kNumNonDistortionTokens
  \/ /\ ~IsLosslessLine(line)
     /\ NumFields(line) < kNumNonDistortionTokens + kNumDistortionMetrics

NormalMode == ~args.settings.discard_distortion_values

\* Compare() has returned an error from LoadTasks(): no task was assigned
\* and the file system is as it was.
RejectedByLoadTasks ==
  /\ compare_status # kOk
  /\ LastCall.returned_at = "LoadTasks"
  /\ LastCall.assigned = 0
  /\ LastCall.recomputed = 0
  /\ files = [log |-> LastCall.log_at_call, backup |-> NoFile]

LinesAtCall == LastCall.log_at_call.lines

\* C23: in the normal mode a line of the log with fewer fields than expected,
\* where the 7 distortion values are expected unless the quality is
\* lossless, is a parse error, and a line that fails to parse makes Compare()
\* return an error before any task is run.
C23_ShortLineRejected ==
  CompareReturned /\ NormalMode =>
    /\ (\E i \in 1..Len(LinesAtCall) : TooFewFields(LinesAtCall[i]))
         => RejectedByLoadTasks
    /\ (\E i \in 1..Len(LinesAtCall) :
           Unserialize(LinesAtCall[i]).status # kOk)
         => RejectedByLoadTasks

\* What holds in the normal mode: a line whose number of fields is neither
\* 13 nor 20 is a parse error, whatever its quality, and a line that fails
\* to parse makes Compare() return an error before any task is run.
C23_BadFieldCountRejected ==
  CompareReturned /\ NormalMode =>
    /\ (\E i \in 1..Len(LinesAtCall) :
           /\ NumFields(LinesAtCall[i]) # kNumNonDistortionTokens
           /\ NumFields(LinesAtCall[i])
                # kNumNonDistortionTokens + kNumDistortionMetrics)
         => RejectedByLoadTasks
    /\ (\E i \in 1..Len(LinesAtCall) :
           Unserialize(LinesAtCall[i]).status # kOk)
         => RejectedByLoadTasks

\* Compare() has returned kOk in the normal mode on a log whose two lines
\* have a lossy quality and 13 fields: the lines were loaded as the two
\* planned tasks, completed, and the aggregate has their distortions,
\* kNoDistortion.
C23_Witness ==
  /\ CompareReturned /\ NormalMode
  /\ Len(LinesAtCall) = 2
  /\ \A i \in 1..2 :
        /\ ~IsLosslessLine(LinesAtCall[i])
        /\ NumFields(LinesAtCall[i]) = kNumNonDistortionTokens
  /\ compare_status = kOk
  /\ LastCall.returned_at = "end"
  /\ Len(results) = 1 /\ Len(results[1]) = 1
  /\ \A m \in 1..kNumDistortionMetrics :
        results[1][1].distortions[m] = NoDistortion

(***************************************************************************)
(* The log across a call of Compare() that returns a fatal error (on Spec).*)
(***************************************************************************)
\* Compare() has returned an error from the loading of the log, from the
\* recomputation of the distortions or from the reconciliation, and there
\* was a log when it was called.
ReturnedFatalError ==
  /\ CompareReturned
  /\ LastCall.status # kOk
  /\ LastCall.returned_at \in { "LoadTasks",
                                "ComputeDistortionInCompletedTasks",
                                "RemoveCompletedTasksFromRemainingTasks" }
  /\ LastCall.log_at_call.exists

\* The file holds the line, or a line with the same fields but for the
\* distortions.
HoldsEntry(file, line) ==
  \E j \in 1..Len(file.lines) :
     \/ file.lines[j] = line
     \/ /\ UnserializeNoDistortion(line).status = kOk
        /\ UnserializeNoDistortion(file.lines[j])
             = UnserializeNoDistortion(line)

HoldsEntriesAtCall(file) ==
  /\ file.exists
  /\ Len(file.lines) >= Len(LastCall.log_at_call.lines)
  /\ \A i \in 1..Len(LastCall.log_at_call.lines) :
        HoldsEntry(file, LastCall.log_at_call.lines[i])

\* C24: whenever Compare() returns a fatal error, in either mode, the log
\* still exists at its path and holds every entry it held at the call; a
\* backup is never the only copy.
C24_LogSurvivesFatalError ==
  ReturnedFatalError =>
    /\ HoldsEntriesAtCall(files.log)
    /\ files.backup.exists => files.log.exists

\* What holds: the entries of the call are kept in the log or in the backup;
\* the file system is untouched in the normal mode and by a parse error.
C24_EntriesKeptSomewhere ==
  ReturnedFatalError =>
    /\ HoldsEntriesAtCall(files.log) \/ files.backup = LastCall.log_at_call
    /\ ~LastCall.args.settings.discard_distortion_values
       \/ LastCall.returned_at = "LoadTasks"
         => files.log = LastCall.log_at_call

\* A recompute call has failed in ComputeDistortionInCompletedTasks() after
\* running its pool: there is no log left at the path, only the backup.
C24_Witness ==
  /\ ReturnedFatalError
  /\ LastCall.args.settings.discard_distortion_values
  /\ LastCall.returned_at = "ComputeDistortionInCompletedTasks"
  /\ LastCall.recomputed >= 1
  /\ ~files.log.exists
  /\ files.backup = LastCall.log_at_call
  /\ files.backup.lines # << >>

(***************************************************************************)
(* A pool of no worker (on SpecPool).                                      *)
(***************************************************************************)
\* The context pool.Run() was given.
ContextAtStart ==
  [NewWorkerContext EXCEPT !.remaining_tasks = Reverse(Planned),
                           !.num_tasks = Len(Planned)]

\* Run() of a pool of no worker goes through its two empty loops and returns.
EmptyPoolStep ==
  \/ pool_pc = "Start" /\ pool_pc' = "Finish"
  \/ pool_pc = "Finish" /\ pool_pc' = "Returned"

\* C25: a pool of 0 workers starts no worker and calls no hook; Run() returns
\* after its two empty loops and the context is as it was given, the tasks
\* left to do and the tasks done included.
C25_PoolOf0 ==
  /\ [](num_workers = 0 =>
          /\ \A w \in WorkerIds : pc[w] = "NotStarted" /\ monitor[w] = "Idle"
          /\ mutex = Unlocked
          /\ context = ContextAtStart
          /\ observed.assigned = 0)
  /\ [][num_workers = 0 => EmptyPoolStep]_vars

\* Run() of a pool of 0 workers has returned and has left two tasks to do.
C25_Witness ==
  /\ num_workers = 0
  /\ pool_pc = "Returned"
  /\ Len(context.remaining_tasks) = 2
  /\ context.completed_tasks = << >>

(***************************************************************************)
(* SpecConservation: one call of Compare() on images and codec settings in *)
(* either order with a log of nothing or one task (the runs of SpecOrder), *)
(* or on more tasks than kMaxNumFailures + 1 (the runs of                  *)
(* SpecManyFailures); each task may fail.                                  *)
(***************************************************************************)
InitConservation == InitOrder \/ InitManyFailures

SpecConservation == InitConservation /\ [][NextOrder]_vars

\* The number of copies of task x that the reconciliation left to run: the
\* planned ones less the loaded ones.
LeftToRun(x) ==
  Count(x, Planned)
  - Count(x, InputsOf(SubSeq(context.completed_tasks, 1, NumLoaded)))

\* The copies of x in the queue, in the workers, and completed in this run.
Queued(x) == Count(x, context.remaining_tasks)
HeldBy(x) == { w \in InFlight : local[w].current_task_input = x }
CompletedSinceStart(x) ==
  Count(x, InputsOf(AddedSinceStart(context.completed_tasks)))

\* No task is in more places than the reconciliation left copies of it, and
\* the tasks queued, held, completed and failed are all the tasks left to
\* run, but for those a drain has discarded.
EachTaskInOnePlace ==
  InPoolRun =>
    /\ \A x \in Range(Planned) \cup HeldTasks :
          Queued(x) + Cardinality(HeldBy(x)) + CompletedSinceStart(x)
            <= LeftToRun(x)
    /\ context.num_failures = 0 =>
          \A x \in Range(Planned) :
             Queued(x) + Cardinality(HeldBy(x)) + CompletedSinceStart(x)
               = LeftToRun(x)
    /\ ~ThresholdExceeded(context.num_failures) =>
          Len(context.remaining_tasks) + Cardinality(InFlight)
          + context.num_completed_tasks_since_start + context.num_failures
            = Len(Planned) - NumLoaded
    /\ ThresholdExceeded(context.num_failures) =>
          /\ context.remaining_tasks = << >>
          /\ Cardinality(InFlight)
             + context.num_completed_tasks_since_start + context.num_failures
               <= Len(Planned) - NumLoaded
    /\ observed.assigned
         = Cardinality(InFlight) + context.num_completed_tasks_since_start
           + context.num_failures

\* AssignTask() moves the task at the back of the queue, and no other, to
\* the worker that called it, and to no other worker.
AssignMovesOneTask ==
  \A w \in WorkerIds :
     InPoolRun /\ WorkerAssignTask(w) /\ pc'[w] = "DoTask" =>
       /\ context.remaining_tasks
            = Append(context'.remaining_tasks, local'[w].current_task_input)
       /\ \A v \in WorkerIds \ {w} : local'[v] = local[v] /\ pc'[v] = pc[v]
       /\ context'.completed_tasks = context.completed_tasks
       /\ context'.num_failures = context.num_failures

\* EndTask() records the task of the worker that called it once: completed,
\* or failed; the failure that takes the count over the threshold discards
\* the queue, and nothing else removes a task from it.
EndTaskSettlesOneTask ==
  \A w \in WorkerIds :
     InPoolRun /\ WorkerEndTask(w) =>
       \/ /\ context'.completed_tasks
               = Append(context.completed_tasks,
                        local[w].current_task_output.value)
          /\ local[w].current_task_output.value.task_input
               = local[w].current_task_input
          /\ context'.num_failures = context.num_failures
          /\ context'.remaining_tasks = context.remaining_tasks
       \/ /\ context'.completed_tasks = context.completed_tasks
          /\ context'.num_failures = context.num_failures + 1
          /\ IF ThresholdExceeded(context'.num_failures)
             THEN context'.remaining_tasks = << >>
             ELSE context'.remaining_tasks = context.remaining_tasks

\* No other step of the pool run touches the queue, the completed tasks,
\* the count of failures or the task of a worker.
OnlyHooksMoveTasks ==
  /\ InPoolRun /\ compare_pc' = compare_pc
  /\ \/ context'.remaining_tasks # context.remaining_tasks
     \/ context'.completed_tasks # context.completed_tasks
     \/ context'.num_failures # context.num_failures
     \/ \E w \in WorkerIds :
           local'[w].current_task_input # local[w].current_task_input
  => \E w \in WorkerIds : WorkerAssignTask(w) \/ WorkerEndTask(w)

\* C26: in every state of the pool run of Compare() each task that the
\* reconciliation left to run is in one place only: in the queue, in one
\* worker, completed once, counted once as failed, or discarded by the
\* drain; AssignTask() gives a task to one worker and EndTask() records it
\* once, so that none is assigned twice, executed twice or lost, for every
\* interleaving of the workers.
C26_TaskConservation ==
  /\ [](EachTaskInOnePlace)
  /\ [][AssignMovesOneTask /\ EndTaskSettlesOneTask /\ OnlyHooksMoveTasks]_vars

\* Two workers hold the two different tasks left of a plan of which a third
\* was loaded from the log.
C26_Witness ==
  /\ InPoolRun
  /\ NumLoaded = 1
  /\ InFlight = { 0, 1 }
  /\ local[0].current_task_input # local[1].current_task_input
  /\ Len(Planned) >= 3

\* A drain has discarded a task that no worker was given.
DrainDiscardedTask ==
  /\ InPoolRun
  /\ ThresholdExceeded(context.num_failures)
  /\ context.remaining_tasks = << >>
  /\ observed.assigned < Len(Planned)

(***************************************************************************)
(* SpecModes: one call of Compare() that encodes to a folder, or not, one  *)
(* image or two images of the same file name, once or repeated, with a log *)
(* of nothing or one planned task, in the normal and in the recompute      *)
(* mode; each task may fail.                                               *)
(***************************************************************************)
\* "f/a": an image with the file name of ImageA.
ImageFA == FolderF \o << CharSlash >> \o ImageA

ModesArgs ==
  { CompareArgs(image_paths,
                ComparisonSettings(<< LossyWebp2 >>, folder, repetitions,
                                   threads, FALSE, discard),
                LogPath, EmptyString) :
      image_paths \in { << ImageA >>, << ImageA, ImageFA >>,
                        << ImageA, ImageB >> },
      folder \in { EmptyString, FolderF },
      repetitions \in 0..MaxRepetitions,
      threads \in 0..MaxExtraThreads,
      discard \in BOOLEAN }

InitModes ==
  /\ args \in ModesArgs
  /\ codec_version = 0
  /\ \E log \in LogsOf(Planned) : files = [log |-> log, backup |-> NoFile]
  /\ compare_pc = "Compare"
  /\ compare_status = "running"
  /\ results = NoResults
  /\ context = NewWorkerContext
  /\ loaded_tasks = << >>
  /\ num_workers = 0
  /\ pool_pc = "Returned"
  /\ pool_i = 0
  /\ mutex = Unlocked
  /\ pc = [w \in WorkerIds |-> "NotStarted"]
  /\ local = [w \in WorkerIds |-> NewTaskWorker]
  /\ monitor = [w \in WorkerIds |-> "Idle"]
  /\ observed = [NewObserved EXCEPT !.log_at_call = files.log]
  /\ calls = << >>

SpecModes == InitModes /\ [][NextParse]_vars

\* Of the tasks given so far, the one with a mode that writes the encoded
\* file is the first given with its encoded path in the run of the pool of
\* Compare(), if that path is not empty.
SavedOncePerPath ==
  \A e \in observed.modes :
     /\ e.encode_mode = kEncodeAndSaveToDisk
          <=> ~e.recompute /\ e.encoded_path # EmptyString /\ e.first
     /\ e.encode_mode = kEncode
          <=> ~e.recompute /\ (e.encoded_path = EmptyString \/ ~e.first)
     /\ e.encode_mode = kLoadFromDisk <=> e.recompute

\* The workers that are executing a task in a mode that writes its file.
Writers ==
  { w \in InFlight : local[w].encode_mode = kEncodeAndSaveToDisk }

NoTwoWritersOfOnePath ==
  \A v \in Writers : \A w \in Writers :
     v # w => local[v].current_task_input.encoded_path
              # local[w].current_task_input.encoded_path

\* AssignTask() gives the mode that writes at most once for a path: a step
\* that gives it is the first to give that path in the pool run.
SaveGivenToFirstOnly ==
  \A w \in WorkerIds :
     WorkerAssignTask(w) /\ pc'[w] = "DoTask"
     /\ local'[w].encode_mode = kEncodeAndSaveToDisk
       => /\ ~InRecompute
          /\ local'[w].current_task_input.encoded_path # EmptyString
          /\ ~\E e \in observed.modes :
                /\ ~e.recompute
                /\ e.encoded_path = local'[w].current_task_input.encoded_path

\* C27: within one pool run the mode encode-and-save-to-disk is given to the
\* first task assigned with a non-empty encoded path and to no later task
\* with that path, whether the first one succeeded or failed; the later ones
\* get plain encode; so no two workers write the same encoded file; and in
\* the load-from-disk mode every task gets the mode load-from-disk.
C27_SavedOncePerPath ==
  /\ [](SavedOncePerPath)
  /\ [](NoTwoWritersOfOnePath)
  /\ [][SaveGivenToFirstOnly]_vars

\* Two workers execute two tasks with the same encoded path, a repetition
\* or an image of the same file name, the second in plain encode mode,
\* after the first task given with that path has failed.
C27_Witness ==
  /\ InPoolRun
  /\ InFlight = { 0, 1 }
  /\ local[0].current_task_input.encoded_path
       = local[1].current_task_input.encoded_path
  /\ local[0].current_task_input.encoded_path # EmptyString
  /\ local[0].current_task_input.image_path
       # local[1].current_task_input.image_path
  /\ \A w \in InFlight : local[w].encode_mode = kEncode
  /\ context.num_failures = 1
  /\ context.num_completed_tasks_since_start = 0
  /\ observed.assigned = 3

(***************************************************************************)
(* SpecRecompute: one call of Compare() in the recompute mode on a log     *)
(* written by the first build of the codecs.  The log holds up to          *)
(* MaxCompleted lines among those of a lossless and a lossy task of image  *)
(* a, of the lossy task encoded to no folder and of a lossy task of image  *)
(* b; or it holds the lines of more than kMaxNumFailures lossy tasks of    *)
(* other images, whose encoded files are no longer on the disk, before or  *)
(* after that of image a.  The call is made by a later build.              *)
(***************************************************************************)
RecomputeArgs ==
  { CompareArgs(<< ImageA >>,
                ComparisonSettings(<< LosslessWebp, LossyWebp2 >>, FolderF, 0,
                                   threads, FALSE, TRUE),
                LogPath, EmptyString) :
      threads \in 0..MaxExtraThreads }

\* The line the first build logged for the task of an image.
LineOf(codec_settings, image_path, folder_path) ==
  Serialize(EncodeDecodeValue(
              TaskInput(codec_settings, image_path,
                        GetEncodedFilePath(folder_path, image_path,
                                           codec_settings)), 0))

SmallLogLines ==
  { LineOf(LosslessWebp, ImageA, FolderF), LineOf(LossyWebp2, ImageA, FolderF),
    LineOf(LossyWebp2, ImageA, EmptyString),
    LineOf(LossyWebp2, ImageB, FolderF) }

\* The images whose encoded files are gone: one-letter paths after "b".
GoneImage(i) == << 98 + i >>
GoneLines ==
  [i \in 1..(kMaxNumFailures + ExtraThresholdTasks) |->
     LineOf(LossyWebp2, GoneImage(i), FolderF)]
KeptLines == << LineOf(LossyWebp2, ImageA, FolderF) >>

RecomputeLogs ==
  UNION { [1..n -> SmallLogLines] : n \in 0..MaxCompleted }
  \cup { GoneLines, KeptLines \o GoneLines, GoneLines \o KeptLines }

\* The encoded files that are on the disk.
OnDisk(encoded_path) ==
  \A i \in 1..(kMaxNumFailures + ExtraThresholdTasks) :
     encoded_path # GetEncodedFilePath(FolderF, GoneImage(i), LossyWebp2)

InitRecompute ==
  /\ args \in RecomputeArgs
  /\ codec_version = MaxCodecVersion
  /\ \E lines \in RecomputeLogs :
        files = [log |-> File(lines), backup |-> NoFile]
  /\ compare_pc = "Compare"
  /\ compare_status = "running"
  /\ results = NoResults
  /\ context = NewWorkerContext
  /\ loaded_tasks = << >>
  /\ num_workers = 0
  /\ pool_pc = "Returned"
  /\ pool_i = 0
  /\ mutex = Unlocked
  /\ pc = [w \in WorkerIds |-> "NotStarted"]
  /\ local = [w \in WorkerIds |-> NewTaskWorker]
  /\ monitor = [w \in WorkerIds |-> "Idle"]
  /\ observed = [NewObserved EXCEPT !.log_at_call = files.log]
  /\ calls = << >>

\* DoTask() on this disk: a task that loads an encoded file that is gone
\* fails.
WorkerDoTaskOnDisk(w) ==
  /\ pc[w] = "DoTask"
  /\ \E worker \in DoTask(local[w], codec_version) :
        /\ local[w].encode_mode = kLoadFromDisk
           /\ ~OnDisk(local[w].current_task_input.encoded_path)
             => worker.current_task_output.status # kOk
        /\ local' = [local EXCEPT ![w] = worker]
  /\ pc' = [pc EXCEPT ![w] = "LockAndEndTask"]
  /\ monitor' = [monitor EXCEPT ![w] = MonitorStep(@, "DoTask")]
  /\ UNCHANGED << args, files, compare_pc, compare_status, results,
                  codec_version, context, loaded_tasks, num_workers, pool_pc,
                  pool_i, mutex, observed, calls >>

WorkerStepOnDisk ==
  \E w \in WorkerIds :
     \/ WorkerLockAndAssignTask(w)
     \/ WorkerAssignTask(w)
     \/ WorkerDoTaskOnDisk(w)
     \/ WorkerLockAndEndTask(w)
     \/ WorkerEndTask(w)

NextRecompute ==
  \/ ComparePlanAndLoad
  \/ CompareRecomputed
  \/ CompareReconcile
  \/ CompareAggregate
  \/ WorkerStepOnDisk
  \/ PoolStep

SpecRecompute == InitRecompute /\ [][NextRecompute]_vars

\* The entries Compare() loaded, while the recompute pool runs, and their
\* encoded paths.
LoadedEntries == loaded_tasks.completed_tasks
LoadedPaths ==
  { LoadedEntries[i].task_input.encoded_path : i \in 1..Len(LoadedEntries) }

\* The tasks the recompute pool has given to its workers.
RecomputeModes == { e \in observed.modes : e.recompute }

RecomputePoolReturned == InRecompute /\ pool_pc = "Returned"

\* The recompute pool is given one task for each encoded path of the loaded
\* entries, none of them empty, and gives each to a worker at most once, in
\* the load-from-disk mode; when it returns without a drain it has given
\* them all.
OneTaskPerEncodedPath ==
  InRecompute =>
    /\ EmptyString \notin LoadedPaths
    /\ \A e \in RecomputeModes :
          /\ e.first
          /\ e.encode_mode = kLoadFromDisk
          /\ e.encoded_path \in LoadedPaths
    /\ observed.recomputed = Cardinality(RecomputeModes)
    /\ observed.recomputed + Len(context.remaining_tasks)
         <= Cardinality(LoadedPaths)
    /\ ~ThresholdExceeded(context.num_failures) =>
          /\ observed.recomputed + Len(context.remaining_tasks)
               = Cardinality(LoadedPaths)
          /\ { context.remaining_tasks[i].encoded_path :
                 i \in 1..Len(context.remaining_tasks) }
             \cup { e.encoded_path : e \in RecomputeModes } = LoadedPaths
    /\ RecomputePoolReturned /\ ~ThresholdExceeded(context.num_failures)
         => observed.recomputed = Cardinality(LoadedPaths)

\* ComputeDistortionInCompletedTasks() has succeeded and Compare() has
\* dumped the entries.
RecomputeSucceeds ==
  /\ CompareRecomputed
  /\ compare_pc' = "RemoveCompletedTasksFromRemainingTasks"

\* On success each loaded entry is as it was loaded but for its
\* distortions, which are those of the result the pool computed for its
\* encoded path; the new log has the lines of these entries, as many as
\* were loaded, and the old log is the backup.
KeepsAllButDistortions ==
  RecomputeSucceeds =>
    /\ Len(context'.completed_tasks) = Len(LoadedEntries)
    /\ \A i \in 1..Len(LoadedEntries) :
          \E j \in 1..Len(context.completed_tasks) :
             /\ context.completed_tasks[j].task_input.encoded_path
                  = LoadedEntries[i].task_input.encoded_path
             /\ context'.completed_tasks[i]
                  = [LoadedEntries[i] EXCEPT
                       !.distortions = context.completed_tasks[j].distortions]
    /\ \A i \in 1..Len(LoadedEntries) :
          \A f \in { "task_input", "image_width", "image_height",
                      "num_frames", "encoded_size", "encoding_duration",
                      "decoding_duration",
                      "decoding_color_conversion_duration" } :
             context'.completed_tasks[i][f] = LoadedEntries[i][f]
    /\ files'.log = File(SerializeAll(context'.completed_tasks))
    /\ Len(files'.log.lines) = Len(observed.log_at_call.lines)
    /\ files'.backup = observed.log_at_call
    /\ observed.recomputed = Cardinality(LoadedPaths)

\* The entries of the log at the call, as the recompute mode reads them.
EntryAtCall(i) == UnserializeNoDistortion(LastCall.log_at_call.lines[i])

\* A loaded entry with no encoded path makes Compare() return the error of
\* ComputeDistortionInCompletedTasks() before any task is given.
EmptyEncodedPathFails ==
  /\ CompareReturned
  /\ LastCall.args.settings.discard_distortion_values
  /\ LastCall.log_at_call.exists
  /\ \A i \in 1..Len(LastCall.log_at_call.lines) : EntryAtCall(i).status = kOk
  /\ \E i \in 1..Len(LastCall.log_at_call.lines) :
        EntryAtCall(i).value.task_input.encoded_path = EmptyString
  => /\ LastCall.status # kOk
     /\ LastCall.returned_at = "ComputeDistortionInCompletedTasks"
     /\ LastCall.recomputed = 0
     /\ LastCall.assigned = 0

AllDistortionsComputed(completed_tasks) ==
  \A i \in 1..Len(completed_tasks) : \A m \in 1..kNumDistortionMetrics :
     completed_tasks[i].distortions[m] # Indeterminate

\* When a task of the recompute pool has failed,
\* ComputeDistortionInCompletedTasks() fails and Compare() returns its error
\* without writing a log.
FailedRecomputeFails ==
  CompareRecomputed /\ context.num_failures > 0 =>
    /\ compare_pc' = "Returned"
    /\ compare_status' # kOk
    /\ calls'[Len(calls')].returned_at = "ComputeDistortionInCompletedTasks"
    /\ files' = files
    /\ ~files'.log.exists
    /\ results' = NoResults

\* Each failure has taken one from num_tasks, the count that the size of
\* completed_tasks is compared with.
FailuresDecrementNumTasks ==
  InRecompute =>
    context.num_tasks + context.num_failures = Cardinality(LoadedPaths)

\* C29: if a task of the recompute pool fails, whatever the number of
\* failures, below or above kMaxNumFailures, and of workers,
\* ComputeDistortionInCompletedTasks() returns an error, although each
\* failure has decremented the num_tasks that completed_tasks.size() is
\* compared with; it succeeds only with no failure, and then every entry has
\* distortions that were recomputed.
C29_FailedRecomputeIsAnError ==
  /\ [][FailedRecomputeFails]_vars
  /\ [][RecomputeSucceeds =>
          /\ context.num_failures = 0
          /\ AllDistortionsComputed(context'.completed_tasks)]_vars
  /\ [](FailuresDecrementNumTasks)
  /\ [](compare_pc \in { "RemoveCompletedTasksFromRemainingTasks",
                         "WorkerPool::Run" }
         => AllDistortionsComputed(context.completed_tasks))

\* The recompute pool of two workers has run all its 34 tasks: the first
\* succeeded and the 33 whose files are gone failed, so that num_tasks was
\* 1, the size of completed_tasks; Compare() has returned the error of
\* ComputeDistortionInCompletedTasks() and there is no log.
C29_Witness ==
  /\ CompareReturned
  /\ LastCall.returned_at = "ComputeDistortionInCompletedTasks"
  /\ LastCall.status # kOk
  /\ LastCall.recomputed = kMaxNumFailures + ExtraThresholdTasks + 1
  /\ num_workers = 2
  /\ ~files.log.exists

\* The recompute pool has returned with one task failed and one succeeded:
\* completed_tasks.size() equals num_tasks.
SizeCheckPassesAfterFailure ==
  /\ RecomputePoolReturned
  /\ context.num_failures = 1
  /\ Len(context.completed_tasks) = 1
  /\ context.num_tasks = 1

(***************************************************************************)
(* The counters of the pool run of Compare() (on SpecConservation).        *)
(***************************************************************************)
\* context.num_tasks - context.completed_tasks.size()
\*                   - context.remaining_tasks.size(), before any wrapping.
NumTasksInFly(ctx) ==
  ctx.num_tasks - Len(ctx.completed_tasks) - Len(ctx.remaining_tasks)

CountersConsistent ==
  InPoolRun =>
    /\ context.num_tasks >= 0
    /\ context.num_tasks
         >= Len(context.completed_tasks) + Len(context.remaining_tasks)
    /\ NumTasksInFly(context) >= Cardinality(InFlight)
    /\ ~ThresholdExceeded(context.num_failures)
         => NumTasksInFly(context) = Cardinality(InFlight)

\* Inside EndTask(): the decrement of a failure finds num_tasks above zero,
\* and the subtraction made after it has no negative result.
EndTaskCountersDoNotWrap ==
  \A w \in WorkerIds :
     InPoolRun /\ WorkerEndTask(w) =>
       /\ local[w].current_task_output.status # kOk
            => /\ context.num_tasks >= 1
               /\ context'.num_tasks = context.num_tasks - 1
       /\ NumTasksInFly(context') >= 0
       /\ NumTasksInFly(context') >= Cardinality(InFlight \ {w})

\* C30: in every state of the pool run of Compare(), with the mutex free or
\* held, num_tasks is at least completed_tasks.size() +
\* remaining_tasks.size(), so that neither the subtraction in EndTask() nor
\* the decrement of a failure goes below zero; until a drain the difference
\* is the number of tasks the workers hold.
C30_CounterConsistency ==
  /\ [](CountersConsistent)
  /\ [][EndTaskCountersDoNotWrap]_vars

\* With the mutex free, after a loaded task and a failure, two workers hold
\* a task each and the difference is two.
C30_Witness ==
  /\ InPoolRun
  /\ mutex = Unlocked
  /\ NumLoaded = 1
  /\ context.num_failures = 1
  /\ Cardinality(InFlight) = 2
  /\ NumTasksInFly(context) = 2

\* After a drain the difference exceeds the number of tasks held.
DrainLeavesDifference ==
  /\ InPoolRun
  /\ ThresholdExceeded(context.num_failures)
  /\ NumTasksInFly(context) > Cardinality(InFlight)

====
